---- MODULE Spec2Model ----
(***************************************************************************)
(* Voter-roll digitisation: the upload handler of the App component, its   *)
(* whole-document cloud conversion, the page-by-page local fallback and    *)
(* the vision-model extraction with model rotation that each page task     *)
(* calls.                                                                  *)
(*                                                                         *)
(* Text is a sequence of one-character strings ("" is << >>).  The values  *)
(* undefined and null are the one-element sequences Undefined and Null,    *)
(* which are not text.                                                     *)
(***************************************************************************)
EXTENDS Integers, Sequences, FiniteSets, TLC

VARIABLES
    voters,       \* App state: the Voter collection
    view,         \* App state: 'UPLOAD' | 'DASHBOARD'
    concurrency,  \* App state: parallel pages setting
    status,       \* App state: ProcessingStatus
    apiKey,       \* process.env.API_KEY is set
    upload,       \* the running handleFileUpload: position, file, counters
    pageQueue,    \* processPdfLocally: pages not yet taken
    allVoters,    \* processPdfLocally: accumulator
    tasks,        \* processPdfLocally: one page task per page
    extraction,   \* extractVotersFromImage called on its own: arguments and call
    csvRun,       \* the CSV functions called on their own: input and result
    pageRun       \* a layout strategy called on its own: tokens, regions, records

vars == <<voters, view, concurrency, status, apiKey, upload, pageQueue,
          allVoters, tasks, extraction, csvRun, pageRun>>

----------------------------------------------------------------------------
(* Bounds *)

MaxPages == 5
MaxYield == 2
MaxConcurrency == 5
MaxFailures == 1      \* failed model requests explored within one upload
MaxRows == 2          \* records of a collection that is exported
MaxCards == 3         \* cards of a sample page

----------------------------------------------------------------------------
(* Values *)

Undefined == <<"undefined">>
Null == <<"null">>
NoTimestamp == 0

Truthy(s) == s # Undefined /\ s # Null /\ s # <<>>

OrEmpty(s) == IF Truthy(s) THEN s ELSE <<>>

Min(a, b) == IF a < b THEN a ELSE b

----------------------------------------------------------------------------
(* Vision-model extraction: extractVotersFromImage of the model service *)

maxRetries == 6
baseDelay == 1500
JitterLimit == 500

FALLBACK_MODELS == <<"gemini-3-pro-preview", "gemini-2.5-flash", "gemini-2.0-flash">>

\* Math.random() * 500, sampled at both ends of [0, 500)
JitterSamples == {0, JitterLimit - 1}

\* a rotation that never leaves the primary model
CurrentModel_NoRotation(attempt) == FALLBACK_MODELS[1]

\* FALLBACK_MODELS[attempt % FALLBACK_MODELS.length]
CurrentModel(attempt) == FALLBACK_MODELS[(attempt % Len(FALLBACK_MODELS)) + 1]

\* VoterRawData as the model returns it; a field the model left out is Undefined,
\* an absent photo_box_2d is << >> (it fails the length test alike)
RawFull ==
    [sl_no |-> <<"1">>, epic_no |-> <<"A", "1">>, name_en |-> <<"x">>,
     name_te |-> <<"y">>, relative_name |-> <<"z">>, house_no |-> <<"7">>,
     age |-> <<"3", "0">>, gender |-> <<"M">>, assembly_name |-> <<"a">>,
     parliament_name |-> <<"p">>, polling_station_no |-> <<"9">>,
     photo_box_2d |-> <<0, 0, 500, 500>>]

RawSparse ==
    [sl_no |-> Undefined, epic_no |-> <<"B", "2">>, name_en |-> <<"w">>,
     name_te |-> Undefined, relative_name |-> Undefined, house_no |-> Undefined,
     age |-> Undefined, gender |-> Undefined, assembly_name |-> Undefined,
     parliament_name |-> Undefined, polling_station_no |-> Undefined,
     photo_box_2d |-> <<>>]

RawData(n) == [i \in 1..n |-> IF i % 2 = 1 THEN RawFull ELSE RawSparse]

cropImage(box) == <<"jpeg">>

\* raw -> Voter
MapRaw(raw, pageNumber, includePhotos) ==
    [sl_no |-> OrEmpty(raw.sl_no),
     epic_no |-> OrEmpty(raw.epic_no),
     name_en |-> OrEmpty(raw.name_en),
     name_te |-> OrEmpty(raw.name_te),
     relative_name |-> OrEmpty(raw.relative_name),
     house_no |-> OrEmpty(raw.house_no),
     age |-> OrEmpty(raw.age),
     gender |-> OrEmpty(raw.gender),
     assembly_name |-> OrEmpty(raw.assembly_name),
     parliament_name |-> OrEmpty(raw.parliament_name),
     polling_station_no |-> OrEmpty(raw.polling_station_no),
     photoBase64 |-> IF includePhotos /\ Len(raw.photo_box_2d) = 4
                     THEN cropImage(raw.photo_box_2d) ELSE Undefined,
     originalPage |-> pageNumber,
     isVoted |-> FALSE,
     votedParty |-> Null,
     timestamp |-> NoTimestamp]

----------------------------------------------------------------------------
(* Tabular text: parseCSVLine and processCSVText of the App component *)

BOM == "BOM"          \* the code unit U+FEFF
Quote == "\""
NaN == 0 - 9999       \* parseInt of text that starts with no digit

Digits == <<"0", "1", "2", "3", "4", "5", "6", "7", "8", "9">>
LowerCase == <<"a", "b", "c", "d", "e", "f", "g", "h", "i", "j", "k", "l", "m",
               "n", "o", "p", "q", "r", "s", "t", "u", "v", "w", "x", "y", "z">>
UpperCase == <<"A", "B", "C", "D", "E", "F", "G", "H", "I", "J", "K", "L", "M",
               "N", "O", "P", "Q", "R", "S", "T", "U", "V", "W", "X", "Y", "Z">>

IndexOf(seq, c) ==
    IF \E i \in 1..Len(seq) : seq[i] = c
    THEN CHOOSE i \in 1..Len(seq) : seq[i] = c /\ \A j \in 1..(i - 1) : seq[j] # c
    ELSE 0

Includes(s, c) == \E i \in 1..Len(s) : s[i] = c

\* String.prototype.trim: white space, line terminators and U+FEFF
IsSpace(c) == c \in {" ", "\t", "\n", "\r", BOM}

RECURSIVE TrimStart(_)
TrimStart(s) ==
    IF s # <<>> /\ IsSpace(Head(s)) THEN TrimStart(Tail(s)) ELSE s

RECURSIVE TrimEnd(_)
TrimEnd(s) ==
    IF s # <<>> /\ IsSpace(s[Len(s)]) THEN TrimEnd(SubSeq(s, 1, Len(s) - 1)) ELSE s

Trim(s) == TrimEnd(TrimStart(s))

ToUpperCase(s) ==
    [i \in 1..Len(s) |->
        IF IndexOf(LowerCase, s[i]) # 0 THEN UpperCase[IndexOf(LowerCase, s[i])]
        ELSE s[i]]

\* .replace(/^"|"$/g, '')
StripEdgeQuotes(s) ==
    LET a == IF s # <<>> /\ Head(s) = Quote THEN Tail(s) ELSE s
    IN IF a # <<>> /\ a[Len(a)] = Quote THEN SubSeq(a, 1, Len(a) - 1) ELSE a

\* .replace(/""/g, '"')
RECURSIVE UnescapeQuotes(_)
UnescapeQuotes(s) ==
    IF Len(s) >= 2 /\ s[1] = Quote /\ s[2] = Quote
    THEN <<Quote>> \o UnescapeQuotes(SubSeq(s, 3, Len(s)))
    ELSE IF s = <<>> THEN <<>>
    ELSE <<Head(s)>> \o UnescapeQuotes(Tail(s))

FinishColumn(current) == Trim(UnescapeQuotes(StripEdgeQuotes(current)))

\* the for loop of parseCSVLine from index i on
RECURSIVE ParseFrom(_, _, _, _, _, _)
ParseFrom(str, delimiter, i, result, current, inQuotes) ==
    IF i > Len(str) THEN Append(result, FinishColumn(current))
    ELSE IF str[i] = Quote
         THEN ParseFrom(str, delimiter, i + 1, result, current, ~inQuotes)
    ELSE IF str[i] = delimiter /\ ~inQuotes
         THEN ParseFrom(str, delimiter, i + 1,
                        Append(result, FinishColumn(current)), <<>>, inQuotes)
    ELSE ParseFrom(str, delimiter, i + 1, result, Append(current, str[i]), inQuotes)

parseCSVLine(str, delimiter) == ParseFrom(str, delimiter, 1, <<>>, <<>>, FALSE)

\* the first line terminator of text at or after index i, 0 if there is none
NextBreak(text, i) ==
    LET Breaks == {j \in i..Len(text) : text[j] \in {"\n", "\r"}}
    IN IF Breaks = {} THEN 0 ELSE CHOOSE j \in Breaks : \A k \in Breaks : j <= k

\* text.split(/\r\n|\n|\r/) from index i on: a terminator is \r\n, \n or \r
RECURSIVE SplitFrom(_, _, _)
SplitFrom(text, i, lines) ==
    LET j == NextBreak(text, i)
    IN IF j = 0 THEN Append(lines, SubSeq(text, i, Len(text)))
       ELSE LET width == IF text[j] = "\r" /\ j < Len(text) /\ text[j + 1] = "\n"
                         THEN 2 ELSE 1
            IN SplitFrom(text, j + width, Append(lines, SubSeq(text, i, j - 1)))

SplitLines(text) == SplitFrom(text, 1, <<>>)

\* parseInt: an optional sign and the leading run of digits
RECURSIVE DigitsValue(_, _, _)
DigitsValue(s, i, acc) ==
    IF i > Len(s) \/ IndexOf(Digits, s[i]) = 0 THEN acc
    ELSE DigitsValue(s, i + 1, acc * 10 + (IndexOf(Digits, s[i]) - 1))

parseInt(s) ==
    LET t == TrimStart(s)
        signed == t # <<>> /\ Head(t) \in {"+", "-"}
        body == IF signed THEN Tail(t) ELSE t
    IN IF body = <<>> \/ IndexOf(Digits, Head(body)) = 0 THEN NaN
       ELSE IF signed /\ Head(t) = "-" THEN 0 - DigitsValue(body, 1, 0)
       ELSE DigitsValue(body, 1, 0)

\* cols[i] of the code (0-based), undefined past the end
Col(cols, i) == IF i + 1 <= Len(cols) THEN cols[i + 1] ELSE Undefined

\* a row mapping that compares the voted column with "YES" as it stands
RowToVoter_CaseSensitive(cols) ==
    [sl_no |-> OrEmpty(Col(cols, 0)),
     epic_no |-> OrEmpty(Col(cols, 1)),
     name_en |-> OrEmpty(Col(cols, 2)),
     name_te |-> OrEmpty(Col(cols, 3)),
     relative_name |-> OrEmpty(Col(cols, 4)),
     house_no |-> OrEmpty(Col(cols, 5)),
     age |-> OrEmpty(Col(cols, 6)),
     gender |-> OrEmpty(Col(cols, 7)),
     assembly_name |-> OrEmpty(Col(cols, 8)),
     parliament_name |-> OrEmpty(Col(cols, 9)),
     polling_station_no |-> OrEmpty(Col(cols, 10)),
     photoBase64 |-> Undefined,
     originalPage |-> IF Truthy(Col(cols, 13)) THEN parseInt(Col(cols, 13)) ELSE 0,
     isVoted |-> Col(cols, 11) # Undefined
                 /\ Col(cols, 11) = <<"Y", "E", "S">>,
     votedParty |-> IF Truthy(Col(cols, 12)) /\ Col(cols, 12) # <<"n", "u", "l", "l">>
                    THEN Col(cols, 12) ELSE Null,
     timestamp |-> NoTimestamp]

\* the record processCSVText pushes for the columns of a data line
RowToVoter(cols) ==
    [sl_no |-> OrEmpty(Col(cols, 0)),
     epic_no |-> OrEmpty(Col(cols, 1)),
     name_en |-> OrEmpty(Col(cols, 2)),
     name_te |-> OrEmpty(Col(cols, 3)),
     relative_name |-> OrEmpty(Col(cols, 4)),
     house_no |-> OrEmpty(Col(cols, 5)),
     age |-> OrEmpty(Col(cols, 6)),
     gender |-> OrEmpty(Col(cols, 7)),
     assembly_name |-> OrEmpty(Col(cols, 8)),
     parliament_name |-> OrEmpty(Col(cols, 9)),
     polling_station_no |-> OrEmpty(Col(cols, 10)),
     photoBase64 |-> Undefined,
     originalPage |-> IF Truthy(Col(cols, 13)) THEN parseInt(Col(cols, 13)) ELSE 0,
     isVoted |-> Col(cols, 11) # Undefined
                 /\ ToUpperCase(Col(cols, 11)) = <<"Y", "E", "S">>,
     votedParty |-> IF Truthy(Col(cols, 12)) /\ Col(cols, 12) # <<"n", "u", "l", "l">>
                    THEN Col(cols, 12) ELSE Null,
     timestamp |-> NoTimestamp]

\* the header line taken for a data line
DataLines_All(lines) == lines

\* lines.slice(1)
DataLines(lines) == Tail(lines)

\* the pure part of processCSVText: the rows it would commit, or the error it throws
ParseCSVText(text) ==
    LET stripped == IF text # <<>> /\ Head(text) = BOM THEN Tail(text) ELSE text
        NonBlank(line) == Len(Trim(line)) > 0
        lines == SelectSeq(SplitLines(stripped), NonBlank)
    IN IF Len(lines) < 2
       THEN [ok |-> FALSE, error |-> "Data appears to be empty or missing headers.",
             loaded |-> <<>>]
       ELSE LET delimiter == IF Includes(lines[1], ";") THEN ";" ELSE ","
                dataLines == DataLines(lines)
                parsed == [i \in 1..Len(dataLines) |->
                              parseCSVLine(dataLines[i], delimiter)]
                Wide(cols) == Len(cols) >= 3
                kept == SelectSeq(parsed, Wide)
                loadedVoters == [i \in 1..Len(kept) |-> RowToVoter(kept[i])]
            IN IF Len(loadedVoters) = 0
               THEN [ok |-> FALSE, error |-> "No valid voter records parsed.",
                     loaded |-> <<>>]
               ELSE [ok |-> TRUE, error |-> "", loaded |-> loadedVoters]

\* String(n) of a number that is an integer or NaN
RECURSIVE DigitsOf(_)
DigitsOf(n) ==
    IF n < 10 THEN <<Digits[n + 1]>> ELSE Append(DigitsOf(n \div 10), Digits[(n % 10) + 1])

NumberToText(n) ==
    IF n = NaN THEN <<"N", "a", "N">>
    ELSE IF n < 0 THEN <<"-">> \o DigitsOf(0 - n)
    ELSE DigitsOf(n)

\* Array.prototype.join
RECURSIVE Join(_, _)
Join(items, separator) ==
    IF items = <<>> THEN <<>>
    ELSE IF Len(items) = 1 THEN items[1]
    ELSE items[1] \o separator \o Join(Tail(items), separator)

\* .replace(/"/g, '""')
RECURSIVE EscapeQuotes(_)
EscapeQuotes(s) ==
    IF s = <<>> THEN <<>>
    ELSE (IF Head(s) = Quote THEN <<Quote, Quote>> ELSE <<Head(s)>>)
             \o EscapeQuotes(Tail(s))

\* `"${(v || "").replace(/"/g, '""')}"`
QuoteField(v) == <<Quote>> \o EscapeQuotes(OrEmpty(v)) \o <<Quote>>

headers ==
    <<<<"S", "e", "r", "i", "a", "l", " ", "N", "o">>,
      <<"E", "P", "I", "C", " ", "N", "o">>,
      <<"N", "a", "m", "e", " ", "(", "E", "n", "g", "l", "i", "s", "h", ")">>,
      <<"N", "a", "m", "e", " ", "(", "T", "e", "l", "u", "g", "u", ")">>,
      <<"R", "e", "l", "a", "t", "i", "o", "n", " ", "N", "a", "m", "e">>,
      <<"H", "o", "u", "s", "e", " ", "N", "o">>,
      <<"A", "g", "e">>,
      <<"G", "e", "n", "d", "e", "r">>,
      <<"A", "s", "s", "e", "m", "b", "l", "y">>,
      <<"P", "a", "r", "l", "i", "a", "m", "e", "n", "t">>,
      <<"P", "o", "l", "l", "i", "n", "g", " ", "S", "t", "a", "t", "i", "o", "n">>,
      <<"V", "o", "t", "e", "d", "?">>,
      <<"P", "a", "r", "t", "y">>,
      <<"P", "a", "g", "e", " ", "N", "o">>,
      <<"T", "i", "m", "e", "s", "t", "a", "m", "p">>>>

\* one row of generateCSVContent before the join
ExportRow(v) ==
    <<v.sl_no, v.epic_no, QuoteField(v.name_en), QuoteField(v.name_te),
      QuoteField(v.relative_name), QuoteField(v.house_no), v.age, v.gender,
      QuoteField(v.assembly_name), QuoteField(v.parliament_name),
      QuoteField(v.polling_station_no),
      IF v.isVoted THEN <<"Y", "E", "S">> ELSE <<"N", "O">>,
      OrEmpty(v.votedParty),
      NumberToText(v.originalPage),
      IF v.timestamp # NoTimestamp THEN NumberToText(v.timestamp) ELSE <<>>>>

generateCSVContent(votersData) ==
    <<BOM>> \o Join(<<Join(headers, <<",">>)>>
                        \o [i \in 1..Len(votersData) |->
                               Join(ExportRow(votersData[i]), <<",">>)],
                    <<"\n">>)

----------------------------------------------------------------------------
(* The text of a model response: JSON as text, bracket extraction, JSON.parse *)

\* the text fields of VoterRawData, in schema order
TextFields ==
    <<"sl_no",
      "epic_no",
      "name_en",
      "name_te",
      "relative_name",
      "house_no",
      "age",
      "gender",
      "assembly_name",
      "parliament_name",
      "polling_station_no">>

\* a property name as text
KeyText(name) ==
    CASE name = "sl_no" -> <<"s", "l", "_", "n", "o">>
      [] name = "epic_no" -> <<"e", "p", "i", "c", "_", "n", "o">>
      [] name = "name_en" -> <<"n", "a", "m", "e", "_", "e", "n">>
      [] name = "name_te" -> <<"n", "a", "m", "e", "_", "t", "e">>
      [] name = "relative_name" -> <<"r", "e", "l", "a", "t", "i", "v", "e", "_", "n", "a", "m", "e">>
      [] name = "house_no" -> <<"h", "o", "u", "s", "e", "_", "n", "o">>
      [] name = "age" -> <<"a", "g", "e">>
      [] name = "gender" -> <<"g", "e", "n", "d", "e", "r">>
      [] name = "assembly_name" -> <<"a", "s", "s", "e", "m", "b", "l", "y", "_", "n", "a", "m", "e">>
      [] name = "parliament_name" -> <<"p", "a", "r", "l", "i", "a", "m", "e", "n", "t", "_", "n", "a", "m", "e">>
      [] name = "polling_station_no" -> <<"p", "o", "l", "l", "i", "n", "g", "_", "s", "t", "a", "t", "i", "o", "n", "_", "n", "o">>
      [] name = "photo_box_2d" -> <<"p", "h", "o", "t", "o", "_", "b", "o", "x", "_", "2", "d">>
      [] name = "voters" -> <<"v", "o", "t", "e", "r", "s">>

\* "key":"value"
StringMember(name, value) ==
    <<Quote>> \o KeyText(name) \o <<Quote, ":", Quote>> \o value \o <<Quote>>

\* [n,n,n,n]
NumberArrayText(numbers) ==
    <<"[">> \o Join([i \in 1..Len(numbers) |-> NumberToText(numbers[i])], <<",">>)
        \o <<"]">>

\* JSON.stringify of one raw record: the properties it has, in schema order
RawText(raw) ==
    LET Present(name) == raw[name] # Undefined
        present == SelectSeq(TextFields, Present)
        members == [i \in 1..Len(present) |-> StringMember(present[i], raw[present[i]])]
        box == IF raw.photo_box_2d # <<>>
               THEN <<<<Quote>> \o KeyText("photo_box_2d") \o <<Quote, ":">>
                          \o NumberArrayText(raw.photo_box_2d)>>
               ELSE <<>>
    IN <<"{">> \o Join(members \o box, <<",">>) \o <<"}">>

RawArrayText(raws) ==
    <<"[">> \o Join([i \in 1..Len(raws) |-> RawText(raws[i])], <<",">>) \o <<"]">>

\* a number read where a record is expected: it has none of the properties
RawNumber ==
    [sl_no |-> Undefined, epic_no |-> Undefined, name_en |-> Undefined,
     name_te |-> Undefined, relative_name |-> Undefined, house_no |-> Undefined,
     age |-> Undefined, gender |-> Undefined, assembly_name |-> Undefined,
     parliament_name |-> Undefined, polling_station_no |-> Undefined,
     photo_box_2d |-> <<>>]

\* the JSON values the texts of the model can hold: an array of records, one
\* record, a {voters: [...]} wrapper, an array of numbers
JsonValues ==
    {[kind |-> "array", raws |-> RawData(n), numbers |-> <<>>] : n \in 0..MaxYield}
        \cup {[kind |-> "object", raws |-> <<RawData(n)[n]>>, numbers |-> <<>>] :
                  n \in 1..MaxYield}
        \cup {[kind |-> "wrapper", raws |-> RawData(n), numbers |-> <<>>] :
                  n \in 0..MaxYield}
        \cup {[kind |-> "numbers", raws |-> <<>>, numbers |-> RawFull.photo_box_2d]}

\* JSON.stringify
JsonText(value) ==
    CASE value.kind = "array" -> RawArrayText(value.raws)
      [] value.kind = "object" -> RawText(value.raws[1])
      [] value.kind = "wrapper" ->
             <<"{", Quote>> \o KeyText("voters") \o <<Quote, ":">>
                 \o RawArrayText(value.raws) \o <<"}">>
      [] value.kind = "numbers" -> NumberArrayText(value.numbers)

\* JSON.parse: the value whose text this is (blanks around it are allowed), or a
\* SyntaxError
JsonParse(text) ==
    LET t == Trim(text)
        Matches == {value \in JsonValues : JsonText(value) = t}
    IN IF Matches = {} THEN [ok |-> FALSE, value |-> [kind |-> "none"]]
       ELSE [ok |-> TRUE, value |-> CHOOSE value \in Matches : TRUE]

LastIndexOf(seq, c) ==
    IF \E i \in 1..Len(seq) : seq[i] = c
    THEN CHOOSE i \in 1..Len(seq) : seq[i] = c /\ \A j \in (i + 1)..Len(seq) : seq[j] # c
    ELSE 0

StartsWith(text, prefix) ==
    Len(text) >= Len(prefix) /\ SubSeq(text, 1, Len(prefix)) = prefix

Backtick == "BACKTICK"     \* the character U+0060
Fence == <<Backtick, Backtick, Backtick>>

\* the three replace calls of the fallback: an opening fence with or without
\* "json" and the blanks after it, a closing fence and the blanks before it
StripFences(text) ==
    LET a == IF StartsWith(text, Fence \o <<"j", "s", "o", "n">>)
             THEN TrimStart(SubSeq(text, Len(Fence) + 5, Len(text))) ELSE text
        b == IF StartsWith(a, Fence) THEN TrimStart(SubSeq(a, Len(Fence) + 1, Len(a)))
             ELSE a
    IN IF Len(b) >= Len(Fence) /\ SubSeq(b, Len(b) - Len(Fence) + 1, Len(b)) = Fence
       THEN TrimEnd(SubSeq(b, 1, Len(b) - Len(Fence))) ELSE b

\* the JSON string the call parses: from the first [ to the last ], or the text
\* without its code fence
ExtractJson(text) ==
    LET jsonString == IF text = <<>> THEN <<"[", "]">> ELSE text
        firstBracket == IndexOf(jsonString, "[")
        lastBracket == LastIndexOf(jsonString, "]")
    IN IF firstBracket # 0 /\ lastBracket # 0 /\ lastBracket > firstBracket
       THEN SubSeq(jsonString, firstBracket, lastBracket)
       ELSE StripFences(jsonString)

\* the parse of a response text: rawData, or the throw of "JSON Parse Failed"
ParseResponse(text) ==
    LET parsed == JsonParse(ExtractJson(text))
    IN IF ~parsed.ok THEN [ok |-> FALSE, rawData |-> <<>>]
       ELSE IF parsed.value.kind = "numbers"
            THEN [ok |-> TRUE,
                  rawData |-> [i \in 1..Len(parsed.value.numbers) |-> RawNumber]]
       ELSE [ok |-> TRUE, rawData |-> parsed.value.raws]

----------------------------------------------------------------------------
(* The extraction call: requests, retries and the mapping of a response *)

\* text around the JSON of a response
Prose == <<"H", "e", "r", "e", " ", "i", "s", " ", "t", "h", "e", " ", "d", "a", "t",
           "a", ":", "\n">>

Wrapped(json, wrap) ==
    CASE wrap = "none" -> json
      [] wrap = "prose" -> Prose \o json
      [] wrap = "fence" ->
             Fence \o <<"j", "s", "o", "n", "\n">> \o json \o <<"\n">> \o Fence

\* What one generateContent request can come back with: a rejected request
\* ("error"), or a text: one that holds no JSON ("malformed"), a JSON array of n
\* raw records, the n-th raw record alone ("object"), or a {voters: [n records]}
\* wrapper, bare, after prose or inside a code fence
Responses ==
    {[kind |-> "error", n |-> 0, wrap |-> "none"],
     [kind |-> "malformed", n |-> 0, wrap |-> "none"]}
        \cup [kind : {"array", "wrapper"}, n : 0..MaxYield,
              wrap : {"none", "prose", "fence"}]
        \cup [kind : {"object"}, n : 1..MaxYield, wrap : {"none", "prose", "fence"}]

\* response.text
ResponseText(resp) ==
    CASE resp.kind = "error" -> <<>>
      [] resp.kind = "malformed" -> <<"S", "o", "r", "r", "y", ".">>
      [] resp.kind = "array" -> Wrapped(RawArrayText(RawData(resp.n)), resp.wrap)
      [] resp.kind = "object" -> Wrapped(RawText(RawData(resp.n)[resp.n]), resp.wrap)
      [] resp.kind = "wrapper" ->
             Wrapped(JsonText([kind |-> "wrapper", raws |-> RawData(resp.n),
                               numbers |-> <<>>]), resp.wrap)

\* what a request of a page task of the local fallback comes back with
PageResponses ==
    {r \in Responses :
        r.kind \in {"error", "malformed", "array"} /\ r.wrap = "none"
            /\ r.n \in {0, MaxYield}}

\* One call of extractVotersFromImage: where it stands, its attempt counter, the
\* requests it has issued (the model of each), what each came back with, the
\* sleeps it has started, the delay of the running sleep, the rawData parsed from
\* the last response, and what it returned
NoCall ==
    [pc |-> "idle", attempt |-> 0, requests |-> <<>>, outcomes |-> <<>>,
     sleeps |-> 0, delay |-> 0, rawData |-> <<>>, result |-> <<>>]

\* top of the while loop: the next request, or the return after the loop
IssueRequest(call) ==
    IF call.attempt < maxRetries
    THEN [call EXCEPT !.pc = "request", !.delay = 0,
                      !.requests = Append(@, CurrentModel(call.attempt))]
    ELSE [call EXCEPT !.pc = "returned", !.delay = 0, !.result = <<>>]

\* an entry without the API key check
StartCall_Unchecked(hasKey) == IssueRequest(NoCall)

\* entry: the API key check, then the first request
StartCall(hasKey) ==
    IF ~hasKey THEN [NoCall EXCEPT !.pc = "thrown"] ELSE IssueRequest(NoCall)

\* a catch block that gives up one failure late (attempt > maxRetries)
CatchFailure_OffByOne(call, jitter) ==
    LET attempt == call.attempt + 1
    IN IF attempt > maxRetries
       THEN [call EXCEPT !.attempt = attempt, !.pc = "returned", !.result = <<>>]
       ELSE [call EXCEPT !.attempt = attempt, !.pc = "sleep",
                         !.sleeps = @ + 1,
                         !.delay = baseDelay * attempt + jitter]

\* a catch block whose delay does not grow with the attempt
CatchFailure_FlatDelay(call, jitter) ==
    LET attempt == call.attempt + 1
    IN IF attempt >= maxRetries
       THEN [call EXCEPT !.attempt = attempt, !.pc = "returned", !.result = <<>>]
       ELSE [call EXCEPT !.attempt = attempt, !.pc = "sleep",
                         !.sleeps = @ + 1,
                         !.delay = baseDelay + jitter]

\* the catch block: count the attempt, give up or back off
CatchFailure(call, jitter) ==
    LET attempt == call.attempt + 1
    IN IF attempt >= maxRetries
       THEN [call EXCEPT !.attempt = attempt, !.pc = "returned", !.result = <<>>]
       ELSE [call EXCEPT !.attempt = attempt, !.pc = "sleep",
                         !.sleeps = @ + 1,
                         !.delay = baseDelay * attempt + jitter]

\* a try block whose success path does not return: the loop issues another request
HandleResponse_NoReturn(call, resp, pageNumber, includePhotos, jitter) ==
    LET parsed == ParseResponse(ResponseText(resp))
        failed == resp.kind = "error" \/ ~parsed.ok
        seen == [call EXCEPT !.outcomes =
                     Append(@, IF failed THEN "failed" ELSE "parsed")]
    IN IF failed
       THEN CatchFailure(seen, jitter)
       ELSE LET rawData == parsed.rawData
            IN IssueRequest([seen EXCEPT !.attempt = @ + 1,
                                         !.rawData = rawData,
                                         !.result = [i \in 1..Len(rawData) |->
                                                        MapRaw(rawData[i], pageNumber,
                                                               includePhotos)]])

\* the try block after the request came back: the request was rejected, or its
\* text is parsed and mapped
HandleResponse(call, resp, pageNumber, includePhotos, jitter) ==
    LET parsed == ParseResponse(ResponseText(resp))
        failed == resp.kind = "error" \/ ~parsed.ok
        seen == [call EXCEPT !.outcomes =
                     Append(@, IF failed THEN "failed" ELSE "parsed")]
    IN IF failed
       THEN CatchFailure(seen, jitter)
       ELSE LET rawData == parsed.rawData
            IN [seen EXCEPT !.pc = "returned",
                            !.rawData = rawData,
                            !.result = [i \in 1..Len(rawData) |->
                                           MapRaw(rawData[i], pageNumber,
                                                  includePhotos)]]

----------------------------------------------------------------------------
(* The App component: state, upload handler and local fallback *)

\* the buttons of the "Parallel Pages" control
ConcurrencyOptions == {n \in {2, 5, 10, 20, 30} : n <= MaxConcurrency}

\* an uploaded document: its page count, and whether pdf.js can open it
Files == [numPages : 1..MaxPages, readable : BOOLEAN]
NoFile == [numPages |-> 0, readable |-> FALSE]

OpenError == "Invalid PDF structure."

\* bodies the conversion endpoint can answer with
HeaderRow == <<"S", ",", "E", ",", "N">>
RowA == <<"1", ",", "A", "1", ",", "x">>
RowB == <<"2", ",", "B", "2", ",", Quote, "w", ",", "v", Quote>>
RowShort == <<"3", ",", "C">>
RowVoted ==
    <<"4", ",", "D", "4", ",", "q", ",", ",", ",", ",", ",", ",", ",", ",", ",",
      "y", "e", "s", ",", "I", "N", "C", ",", "7">>

BodyOneRow == HeaderRow \o <<"\n">> \o RowA
BodyMixed ==
    <<BOM>> \o HeaderRow \o <<"\r", "\n">> \o RowA \o <<"\n">> \o RowShort
        \o <<"\n", "\n">> \o RowB \o <<"\n">>

BodyVoted == HeaderRow \o <<"\n">> \o RowVoted

\* two rows whose EPIC cell is empty
RowNoEpicA == <<"5", ",", ",", "m">>
RowNoEpicB == <<"6", ",", ",", "n">>
BodyNoEpic == HeaderRow \o <<"\n">> \o RowNoEpicA \o <<"\n">> \o RowNoEpicB

CloudBodies ==
    {<<>>, HeaderRow, HeaderRow \o <<"\n">> \o RowShort, BodyOneRow, BodyMixed,
     BodyVoted, BodyNoEpic}

\* what the POST can come back with: fetch rejects, a non-2xx status, or 2xx and a body
CloudOutcomes ==
    {[kind |-> "unreachable", body |-> <<>>], [kind |-> "status", body |-> <<>>]}
        \cup {[kind |-> "ok", body |-> b] : b \in CloudBodies}

\* uploadPdfToCloud: the text it resolves with, or a throw
uploadPdfToCloud(outcome) ==
    IF outcome.kind = "ok"
    THEN [thrown |-> FALSE, text |-> outcome.body]
    ELSE [thrown |-> TRUE, text |-> <<>>]

IdleStatus == [total |-> 0, current |-> 0, message |-> "", isProcessing |-> FALSE]

NoVotersMessage == "No voters found. Please try a different PDF or Quality."

\* status.message.includes('Error') || status.message.includes('No voters')
IsErrorMessage(m) ==
    \/ m = "Critical Error: " \o OpenError
    \/ m = NoVotersMessage
    \/ m = "Error loading CSV: Data appears to be empty or missing headers."
    \/ m = "Error loading CSV: No valid voter records parsed."

\* a page task: where it stands, the batch that took it, how often it was taken
\* from the queue, how often extraction was invoked for it, and its extraction call
NoTask == [pc |-> "none", batch |-> 0, taken |-> 0, extractions |-> 0, call |-> NoCall]

NoUpload ==
    [pc |-> "idle", file |-> NoFile, concurrency |-> 0, cloudRequests |-> 0,
     cloud |-> "none", error |-> "none", localStarts |-> 0, batches |-> 0,
     failures |-> 0]

NoExtraction == [pageNumber |-> 1, includePhotos |-> FALSE, call |-> NoCall]

\* the CSV functions called on their own: where the run stands, the text exported
\* or read, whether the text read is the one just exported, the collection and
\* the view before the import, the fields and columns of a parsed line, the
\* message of the error thrown
NoCsvRun ==
    [pc |-> "idle", text |-> <<>>, exported |-> FALSE, before |-> <<>>,
     viewBefore |-> "UPLOAD", fields |-> <<>>, cols |-> <<>>, error |-> ""]

\* a layout strategy called on its own: where the run stands, the strategy, its
\* arguments (text items or recognised words, page number, includePhotos), the
\* card regions it formed and the records it returned
NoPageRun ==
    [pc |-> "idle", strategy |-> "none", tokens |-> <<>>, pageNum |-> 1,
     includePhotos |-> FALSE, regions |-> <<>>, result |-> <<>>]

Settled(task) == task.pc \in {"done", "failed"}
InFlight(task) == task.pc \in {"render", "extract"}

Init ==
    /\ voters = <<>>
    /\ view = "UPLOAD"
    /\ concurrency = 2
    /\ status = IdleStatus
    /\ apiKey \in BOOLEAN
    /\ upload = NoUpload
    /\ pageQueue = <<>>
    /\ allVoters = <<>>
    /\ tasks = [p \in 1..MaxPages |-> NoTask]
    /\ extraction = NoExtraction
    /\ csvRun = NoCsvRun
    /\ pageRun = NoPageRun

\* setConcurrency(num)
SetConcurrency(num) ==
    /\ view = "UPLOAD"
    /\ num # concurrency
    /\ concurrency' = num
    /\ UNCHANGED <<voters, view, status, apiKey, upload, pageQueue, allVoters, tasks,
                   extraction, csvRun, pageRun>>

\* handleFileUpload up to the await of uploadPdfToCloud; the input is disabled
\* while status.isProcessing.  The closure keeps the concurrency of this render.
HandleFileUpload(file) ==
    /\ view = "UPLOAD"
    /\ ~status.isProcessing
    /\ voters' = <<>>
    /\ status' = [total |-> 0, current |-> 0,
                  message |-> "Connecting to Cloud Engine...", isProcessing |-> TRUE]
    /\ upload' = [pc |-> "cloud", file |-> file, concurrency |-> concurrency,
                  cloudRequests |-> 1, cloud |-> "pending", error |-> "none",
                  localStarts |-> 0, batches |-> 0, failures |-> 0]
    /\ pageQueue' = <<>>
    /\ allVoters' = <<>>
    /\ tasks' = [p \in 1..MaxPages |-> NoTask]
    /\ UNCHANGED <<view, concurrency, apiKey, extraction, csvRun, pageRun>>

\* a catch that reports the error and stops
SwitchToLocal_HardStop(error) ==
    /\ status' = [total |-> 0, current |-> 0,
                  message |-> "Critical Error: " \o OpenError, isProcessing |-> FALSE]
    /\ upload' = [upload EXCEPT !.pc = "finished", !.cloud = "failed", !.error = error]
    /\ UNCHANGED <<voters, view>>

\* the catch of handleFileUpload, error being what it caught: the message changes
\* and the fallback timer is set
SwitchToLocal(error) ==
    /\ status' = [status EXCEPT !.message = "Switching to Local Engine..."]
    /\ upload' = [upload EXCEPT !.pc = "timer", !.cloud = "failed", !.error = error]
    /\ UNCHANGED <<voters, view>>

\* processCSVText(text, source) after a successful parse
CommitCSV(loaded, source) ==
    /\ voters' = loaded
    /\ status' = [total |-> 0, current |-> 0,
                  message |-> IF source = "API" THEN "Extraction Complete!"
                              ELSE "Data Loaded Successfully",
                  isProcessing |-> FALSE]
    /\ view' = IF source \in {"FILE", "HISTORY"} THEN "DASHBOARD" ELSE view

\* a handler that reports a response it cannot import, as handleDataFileSelect does
CloudUploadResponds_ImportError(outcome) ==
    /\ upload.pc = "cloud"
    /\ LET r == uploadPdfToCloud(outcome)
           csv == ParseCSVText(r.text)
       IN IF r.thrown
          THEN SwitchToLocal(outcome.kind)
          ELSE IF csv.ok
               THEN /\ CommitCSV(csv.loaded, "API")
                    /\ upload' = [upload EXCEPT !.pc = "finished", !.cloud = "imported"]
               ELSE /\ status' = [total |-> 0, current |-> 0,
                                  message |-> "Error loading CSV: " \o csv.error,
                                  isProcessing |-> FALSE]
                    /\ upload' = [upload EXCEPT !.pc = "finished", !.cloud = "failed",
                                                !.error = "import"]
                    /\ UNCHANGED <<voters, view>>
    /\ UNCHANGED <<concurrency, apiKey, pageQueue, allVoters, tasks, extraction, csvRun, pageRun>>

\* handleFileUpload after the await: the response is imported, or the catch runs
CloudUploadResponds(outcome) ==
    /\ upload.pc = "cloud"
    /\ LET r == uploadPdfToCloud(outcome)
           csv == ParseCSVText(r.text)
       IN IF ~r.thrown /\ csv.ok
          THEN /\ CommitCSV(csv.loaded, "API")
               /\ upload' = [upload EXCEPT !.pc = "finished", !.cloud = "imported"]
          ELSE SwitchToLocal(IF r.thrown THEN outcome.kind ELSE "import")
    /\ UNCHANGED <<concurrency, apiKey, pageQueue, allVoters, tasks, extraction, csvRun, pageRun>>

\* the 1500 ms timer fires: processPdfLocally starts and awaits the document
FallbackTimer ==
    /\ upload.pc = "timer"
    /\ upload' = [upload EXCEPT !.pc = "opening", !.error = "none",
                                !.localStarts = @ + 1]
    /\ UNCHANGED <<voters, view, concurrency, status, apiKey, pageQueue, allVoters,
                   tasks, extraction, csvRun, pageRun>>

\* a splice that takes one page whatever the setting
BatchSize_One(queue) == Min(1, Len(queue))

\* a slice in place of the splice: the pages taken stay in the queue
RestOfQueue_Keep(queue, n) == queue

\* pageQueue.splice(0, concurrency): how many pages it takes, and what it leaves
BatchSize(queue) == Min(upload.concurrency, Len(queue))

RestOfQueue(queue, n) == SubSeq(queue, n + 1, Len(queue))

\* the while loop of processBatch up to its await: the next batch is spliced off
\* the queue and its page tasks start, or the queue is empty and the run ends
RunBatches(queue, st) ==
    IF Len(queue) > 0
    THEN LET n == BatchSize(queue)
             batch == SubSeq(queue, 1, n)
         IN /\ pageQueue' = RestOfQueue(queue, n)
            /\ tasks' = [p \in 1..MaxPages |->
                           IF \E i \in 1..n : batch[i] = p
                           THEN [NoTask EXCEPT !.pc = "render",
                                               !.batch = upload.batches + 1,
                                               !.taken = tasks[p].taken + 1,
                                               !.extractions = tasks[p].extractions]
                           ELSE tasks[p]]
            /\ upload' = [upload EXCEPT !.pc = "batch", !.batches = @ + 1]
            /\ status' = st
    ELSE /\ pageQueue' = queue
         /\ tasks' = tasks
         /\ upload' = [upload EXCEPT !.pc = "finished"]
         /\ status' = IF Len(allVoters') = 0
                      THEN [total |-> upload.file.numPages,
                            current |-> upload.file.numPages,
                            message |-> NoVotersMessage, isProcessing |-> FALSE]
                      ELSE st

\* the queue without the .slice(2)
EligiblePages_NoSkip(totalPages) == [i \in 1..totalPages |-> i]

\* Array.from({length: totalPages}, (_, i) => i + 1).slice(2)
EligiblePages(totalPages) == [i \in 1..(IF totalPages > 2 THEN totalPages - 2 ELSE 0) |-> i + 2]

\* a timer callback without the .catch: a rejection leaves the status as it is
DocumentOpened_Unhandled ==
    /\ upload.pc = "opening"
    /\ IF ~upload.file.readable
       THEN /\ upload' = [upload EXCEPT !.pc = "finished"]
            /\ UNCHANGED <<status, pageQueue, allVoters, tasks>>
       ELSE /\ allVoters' = <<>>
            /\ RunBatches(EligiblePages(upload.file.numPages),
                          [total |-> upload.file.numPages, current |-> 0,
                           message |-> "Starting Local Extraction...",
                           isProcessing |-> TRUE])
    /\ UNCHANGED <<voters, view, concurrency, apiKey, extraction, csvRun, pageRun>>

\* processPdfLocally after getDocument: it rejects (the .catch of the timer
\* callback sets the status), or the queue is built and the first batch starts
DocumentOpened ==
    /\ upload.pc = "opening"
    /\ IF ~upload.file.readable
       THEN /\ status' = [total |-> 0, current |-> 0,
                          message |-> "Critical Error: " \o OpenError,
                          isProcessing |-> FALSE]
            /\ upload' = [upload EXCEPT !.pc = "finished"]
            /\ UNCHANGED <<pageQueue, allVoters, tasks>>
       ELSE /\ allVoters' = <<>>
            /\ RunBatches(EligiblePages(upload.file.numPages),
                          [total |-> upload.file.numPages, current |-> 0,
                           message |-> "Starting Local Extraction...",
                           isProcessing |-> TRUE])
    /\ UNCHANGED <<voters, view, concurrency, apiKey, extraction, csvRun, pageRun>>

PageMessage(pageNum, totalPages) ==
    "Processing Page " \o ToString(pageNum) \o " of " \o ToString(totalPages) \o "..."

\* a page task that stores its records over the collection instead of appending
FinishPage_Overwrite(p, call) ==
    /\ tasks' = [tasks EXCEPT ![p].call = call, ![p].pc = "done"]
    /\ IF Len(call.result) > 0
       THEN /\ allVoters' = call.result
            /\ voters' = call.result
       ELSE UNCHANGED <<allVoters, voters>>

\* a page task that puts its records in front of the collection
FinishPage_Prepend(p, call) ==
    /\ tasks' = [tasks EXCEPT ![p].call = call, ![p].pc = "done"]
    /\ IF Len(call.result) > 0
       THEN /\ allVoters' = call.result \o allVoters
            /\ voters' = call.result \o voters
       ELSE UNCHANGED <<allVoters, voters>>

\* the page task after an extraction call has returned pageVoters
FinishPage(p, call) ==
    /\ tasks' = [tasks EXCEPT ![p].call = call, ![p].pc = "done"]
    /\ IF Len(call.result) > 0
       THEN /\ allVoters' = allVoters \o call.result
            /\ voters' = voters \o call.result
       ELSE UNCHANGED <<allVoters, voters>>

\* the page task after getPdfPageAsBase64: it throws into the catch, or the status
\* advances and extractVotersFromImage(base64, pageNum, false) runs to its first await
PageRendered(p, rendered) ==
    /\ tasks[p].pc = "render"
    /\ IF ~rendered
       THEN /\ tasks' = [tasks EXCEPT ![p].pc = "failed"]
            /\ UNCHANGED status
       ELSE /\ status' = [status EXCEPT !.current = @ + 1,
                             !.message = PageMessage(p, upload.file.numPages)]
            /\ LET call == StartCall(apiKey)
               IN tasks' = [tasks EXCEPT ![p].call = call,
                               ![p].extractions = @ + 1,
                               ![p].pc = IF call.pc = "thrown" THEN "failed"
                                         ELSE "extract"]
    /\ UNCHANGED <<voters, view, concurrency, apiKey, upload, pageQueue, allVoters,
                   extraction, csvRun, pageRun>>

\* a generateContent request of page p comes back
ModelResponds(p, resp, jitter) ==
    /\ tasks[p].pc = "extract"
    /\ tasks[p].call.pc = "request"
    /\ resp.kind # "array" => upload.failures < MaxFailures
    /\ upload' = [upload EXCEPT !.failures = IF resp.kind # "array" THEN @ + 1 ELSE @]
    /\ LET call == HandleResponse(tasks[p].call, resp, p, FALSE, jitter)
       IN IF call.pc = "returned"
          THEN FinishPage(p, call)
          ELSE /\ tasks' = [tasks EXCEPT ![p].call = call]
               /\ UNCHANGED <<allVoters, voters>>
    /\ UNCHANGED <<view, concurrency, status, apiKey, pageQueue, extraction, csvRun, pageRun>>

\* the backoff sleep of page p ends
BackoffElapsed(p) ==
    /\ tasks[p].pc = "extract"
    /\ tasks[p].call.pc = "sleep"
    /\ LET call == IssueRequest(tasks[p].call)
       IN IF call.pc = "returned"
          THEN FinishPage(p, call)
          ELSE /\ tasks' = [tasks EXCEPT ![p].call = call]
               /\ UNCHANGED <<allVoters, voters>>
    /\ UNCHANGED <<view, concurrency, status, apiKey, upload, pageQueue, extraction, csvRun, pageRun>>

\* Promise.race in place of Promise.all: one ended page task is enough
AllSettled_Any == \E p \in 1..MaxPages : tasks[p].batch = upload.batches /\ Settled(tasks[p])

\* Promise.all(promises): every page task of the running batch has ended
AllSettled == \A p \in 1..MaxPages : tasks[p].batch = upload.batches => Settled(tasks[p])

\* the await of Promise.all resolves and the loop of processBatch goes on
BatchSettled ==
    /\ upload.pc = "batch"
    /\ AllSettled
    /\ UNCHANGED allVoters
    /\ RunBatches(pageQueue, status)
    /\ UNCHANGED <<voters, view, concurrency, apiKey, extraction, csvRun, pageRun>>

\* the "Reset / Try Again" button
ResetStatus ==
    /\ view = "UPLOAD"
    /\ ~status.isProcessing
    /\ IsErrorMessage(status.message)
    /\ status' = IdleStatus
    /\ UNCHANGED <<voters, view, concurrency, apiKey, upload, pageQueue, allVoters,
                   tasks, extraction, csvRun, pageRun>>

\* the "Enter Polling Dashboard" button of the success panel
EnterDashboard ==
    /\ view = "UPLOAD"
    /\ ~status.isProcessing
    /\ \/ status.message \in {"Extraction Complete!", "Data Loaded Successfully"}
       \/ Len(voters) > 0
    /\ view' = "DASHBOARD"
    /\ UNCHANGED <<voters, concurrency, status, apiKey, upload, pageQueue, allVoters,
                   tasks, extraction, csvRun, pageRun>>

\* a click on the header logo
HeaderClick ==
    /\ view = "DASHBOARD"
    /\ view' = "UPLOAD"
    /\ UNCHANGED <<voters, concurrency, status, apiKey, upload, pageQueue, allVoters,
                   tasks, extraction, csvRun, pageRun>>

\* names of DEFAULT_PARTIES the party buttons are drawn from
PartyNames == {<<"I", "N", "C">>, <<"B", "R", "S">>}

\* values of Date.now()
Times == {1, 2}

\* updateVoter: every record whose epic_no equals the updated one's is replaced
updateVoter(updatedVoter) ==
    /\ voters' = [i \in 1..Len(voters) |->
                     IF voters[i].epic_no = updatedVoter.epic_no THEN updatedVoter
                     ELSE voters[i]]
    /\ UNCHANGED <<view, concurrency, status, apiKey, upload, pageQueue, allVoters,
                   tasks, extraction, csvRun, pageRun>>

\* a party button of the row of voters[i]; the row shows them while not voted
HandlePartySelect(i, party, now) ==
    /\ view = "DASHBOARD"
    /\ i \in 1..Len(voters)
    /\ ~voters[i].isVoted
    /\ updateVoter([voters[i] EXCEPT !.isVoted = TRUE, !.votedParty = party,
                                     !.timestamp = now])

\* an undo that leaves the party of the vote on the record
HandleVoteToggle_KeepsParty(i, now) ==
    /\ view = "DASHBOARD"
    /\ i \in 1..Len(voters)
    /\ voters[i].isVoted
    /\ updateVoter([voters[i] EXCEPT !.isVoted = ~voters[i].isVoted,
                                     !.timestamp = now])

\* the "Undo Vote" button of the row of voters[i]; the row shows it while voted
HandleVoteToggle(i, now) ==
    /\ view = "DASHBOARD"
    /\ i \in 1..Len(voters)
    /\ voters[i].isVoted
    /\ updateVoter([voters[i] EXCEPT !.isVoted = ~voters[i].isVoted,
                                     !.votedParty = IF ~voters[i].isVoted
                                                    THEN voters[i].votedParty ELSE Null,
                                     !.timestamp = now])

\* most records a collection of the model holds
MaxVoters == 2 + (MaxPages * MaxYield)

Next ==
    \/ \E num \in ConcurrencyOptions : SetConcurrency(num)
    \/ \E file \in Files : HandleFileUpload(file)
    \/ \E outcome \in CloudOutcomes : CloudUploadResponds(outcome)
    \/ FallbackTimer
    \/ DocumentOpened
    \/ \E p \in 1..MaxPages, rendered \in BOOLEAN : PageRendered(p, rendered)
    \/ \E p \in 1..MaxPages, resp \in PageResponses, jitter \in JitterSamples :
           ModelResponds(p, resp, jitter)
    \/ \E p \in 1..MaxPages : BackoffElapsed(p)
    \/ BatchSettled
    \/ ResetStatus
    \/ EnterDashboard
    \/ HeaderClick
    \/ \E i \in 1..MaxVoters, party \in PartyNames, now \in Times :
           HandlePartySelect(i, party, now)
    \/ \E i \in 1..MaxVoters, now \in Times : HandleVoteToggle(i, now)

Spec == Init /\ [][Next]_vars

\* a timer that was set fires
SpecFair == Spec /\ WF_vars(FallbackTimer)

----------------------------------------------------------------------------
(* Properties of the local fallback, checked under Spec *)

InFlightPages == {p \in 1..MaxPages : InFlight(tasks[p])}
StartedPages == {p \in 1..MaxPages : tasks[p].pc # "none"}
PagesOfBatch(b) == {p \in 1..MaxPages : tasks[p].batch = b}
InQueue(p) == \E i \in 1..Len(pageQueue) : pageQueue[i] = p
RecordsOf(collection, p) ==
    LET FromPage(v) == v.originalPage = p IN SelectSeq(collection, FromPage)
CeilDiv(a, b) == (a + b - 1) \div b

RECURSIVE SumYields(_)
SumYields(p) == IF p = 0 THEN 0 ELSE Len(tasks[p].call.result) + SumYields(p - 1)

\* processPdfLocally has run to its end for the uploaded file
LocalRunFinished ==
    upload.pc = "finished" /\ upload.localStarts = 1 /\ upload.file.readable

\* C4: at every moment at most `concurrency` page tasks (the setting the upload
\* handler runs with) are in flight, and a page of a later batch has started only
\* when every page task of every earlier batch has ended, with records, with none
\* or with an error.
C4_BoundedBatches ==
    /\ Cardinality(InFlightPages) <= upload.concurrency
    /\ \A p \in StartedPages : \A q \in StartedPages :
           tasks[q].batch < tasks[p].batch => Settled(tasks[q])

C4_Witness ==
    /\ tasks[3].pc = "failed"
    /\ tasks[4].pc = "done"
    /\ tasks[4].batch = 1
    /\ tasks[5].batch = 2
    /\ InFlight(tasks[5])

PageStateOf(queue, task, p) ==
    IF \E i \in 1..Len(queue) : queue[i] = p THEN "Queued"
    ELSE IF task.pc = "none" THEN "None"
    ELSE IF InFlight(task) THEN "InFlight"
    ELSE IF task.pc = "done" THEN "Done"
    ELSE "Failed"

C6_State ==
    \A p \in 1..MaxPages :
        /\ tasks[p].taken <= 1
        /\ tasks[p].extractions <= 1
        /\ InQueue(p) => tasks[p].pc = "none" /\ tasks[p].taken = 0
        /\ tasks[p].pc # "none" => tasks[p].taken = 1
        /\ Cardinality({i \in 1..Len(pageQueue) : pageQueue[i] = p}) <= 1

C6_Step ==
    \A p \in 1..MaxPages :
        LET before == PageStateOf(pageQueue, tasks[p], p)
            after == PageStateOf(pageQueue', tasks'[p], p)
        IN before # after =>
              \/ before = "None" /\ after \in {"Queued", "InFlight"}
                                /\ upload.pc = "opening"
              \/ before = "Queued" /\ after = "InFlight"
              \/ before = "InFlight" /\ after \in {"Done", "Failed"}
              \/ after = "None" /\ upload'.pc = "cloud"

\* C6: a page goes Queued, InFlight, then Done or Failed, once and in that order:
\* it is taken from the queue at most once, extraction is invoked for it at most
\* once, and a page that is Done or Failed stays so until the next upload.
C6_PageLifecycle == []C6_State /\ [][C6_Step]_vars

C6_Witness ==
    /\ LocalRunFinished
    /\ \E p \in 1..MaxPages : \E q \in 1..MaxPages :
           /\ tasks[p].pc = "done" /\ tasks[p].taken = 1 /\ tasks[p].extractions = 1
           /\ Len(tasks[p].call.requests) = 2
           /\ tasks[q].pc = "failed" /\ tasks[q].taken = 1

\* C7: a page whose rendering or extraction threw has no record in the
\* collection, its exception never turns into the critical error of the run, and
\* when the run has finished every eligible page has been processed and the
\* records of every page that returned some are all in the collection.
C7_FailedPageIsolated ==
    /\ \A p \in 1..MaxPages :
           tasks[p].pc = "failed" =>
               RecordsOf(voters, p) = <<>> /\ RecordsOf(allVoters, p) = <<>>
    /\ StartedPages # {} => status.message # "Critical Error: " \o OpenError
    /\ LocalRunFinished =>
           \A p \in 3..upload.file.numPages :
               /\ Settled(tasks[p])
               /\ tasks[p].pc = "done" =>
                      /\ RecordsOf(voters, p) = tasks[p].call.result
                      /\ RecordsOf(allVoters, p) = tasks[p].call.result

C7_Witness ==
    /\ LocalRunFinished
    /\ tasks[3].pc = "failed"
    /\ tasks[4].pc = "done" /\ Len(RecordsOf(voters, 4)) > 0
    /\ tasks[5].pc = "done" /\ Len(RecordsOf(voters, 5)) > 0

\* C8: pages 1 and 2 are never queued, rendered or extracted; only pages 3..N are
\* ever processed, and a finished run of an N-page document has processed exactly
\* the pages 3..N (none at all when N <= 2).
C8_SkipsFirstTwo ==
    /\ \A p \in {1, 2} :
           /\ tasks[p].pc = "none" /\ tasks[p].taken = 0 /\ tasks[p].extractions = 0
           /\ ~InQueue(p)
    /\ \A p \in 1..MaxPages :
           (tasks[p].pc # "none" \/ InQueue(p)) => p \in 3..upload.file.numPages
    /\ LocalRunFinished => StartedPages = 3..upload.file.numPages

C8_Witness ==
    /\ LocalRunFinished
    /\ upload.file.numPages = 5
    /\ StartedPages = {3, 4, 5}
    /\ \A p \in {3, 4, 5} : tasks[p].extractions = 1

----------------------------------------------------------------------------
(* The CSV functions called on their own: export, import, line parsing *)

\* records as the extraction and the dashboard leave them
VoterPlain == MapRaw(RawFull, 3, FALSE)
VoterSparse == MapRaw(RawSparse, 4, FALSE)
VoterPhoto == MapRaw(RawFull, 5, TRUE)
VoterMarked ==
    [VoterPlain EXCEPT !.isVoted = TRUE, !.votedParty = <<"I", "N", "C">>,
                       !.timestamp = 2]
VoterUndone == [VoterSparse EXCEPT !.timestamp = 1]
VoterComma == [VoterSparse EXCEPT !.name_en = <<"w", ",", " ", "v">>]
VoterQuoted == [VoterPlain EXCEPT !.relative_name = <<"a", Quote, "b">>]

SampleVoters ==
    {VoterPlain, VoterSparse, VoterPhoto, VoterMarked, VoterUndone, VoterComma,
     VoterQuoted}

Collections == UNION {[1..n -> SampleVoters] : n \in 0..MaxRows}

\* cells of the Voted? and Party columns of a row that is read
VotedCells ==
    {<<"Y", "E", "S">>, <<"y", "e", "s">>, <<"Y", "e", "s">>, <<" ", "y", "E", "S">>,
     <<"N", "O">>, <<"Y">>, <<"Y", "E", "S", "S">>, <<"t", "r", "u", "e">>, <<>>}

PartyCells ==
    {<<>>, <<"n", "u", "l", "l">>, <<"N", "U", "L", "L">>, <<"I", "N", "C">>,
     <<Quote, "B", ",", "R", Quote>>}

\* a data row of 12 or 13 columns
PollRow(voted, party, withParty) ==
    <<"5", ",", "E", "5", ",", "r", ",", ",", ",", ",", ",", ",", ",", ",", ",">>
        \o voted \o (IF withParty THEN <<",">> \o party ELSE <<>>)

PollTexts ==
    {HeaderRow \o <<"\n">> \o PollRow(voted, party, withParty) :
        voted \in VotedCells, party \in PartyCells, withParty \in BOOLEAN}

\* texts of the files that are read
ImportTexts ==
    CloudBodies \cup PollTexts
        \cup {<<BOM>>, HeaderRow \o <<"\n", " ", "\r", "\n">>,
              <<"S", ";", "E", ";", "N", "\n", "1", ";", "A", ",", "1", ";", "x">>}

InitCSV ==
    /\ voters \in Collections
    /\ view \in {"UPLOAD", "DASHBOARD"}
    /\ concurrency = 2
    /\ status = IdleStatus
    /\ apiKey = TRUE
    /\ upload = NoUpload
    /\ pageQueue = <<>>
    /\ allVoters = <<>>
    /\ tasks = [p \in 1..MaxPages |-> NoTask]
    /\ extraction = NoExtraction
    /\ csvRun = NoCsvRun
    /\ pageRun = NoPageRun

\* downloadCSV: the text of the file it offers
DownloadCSV ==
    /\ csvRun.pc = "idle"
    /\ Len(voters) > 0
    /\ csvRun' = [csvRun EXCEPT !.pc = "exported", !.text = generateCSVContent(voters)]
    /\ UNCHANGED <<voters, view, concurrency, status, apiKey, upload, pageQueue,
                   allVoters, tasks, extraction, pageRun>>

\* handleDataFileSelect up to the await of file.text(): the file is the one just
\* exported, or another one
HandleDataFileSelect(text) ==
    /\ IF csvRun.pc = "exported" THEN text = csvRun.text
       ELSE csvRun.pc = "idle" /\ text \in ImportTexts
    /\ status' = [total |-> 0, current |-> 0, message |-> "Reading Local CSV...",
                  isProcessing |-> TRUE]
    /\ csvRun' = [csvRun EXCEPT !.pc = "reading", !.text = text,
                                !.exported = (csvRun.pc = "exported"),
                                !.before = voters, !.viewBefore = view]
    /\ UNCHANGED <<voters, view, concurrency, apiKey, upload, pageQueue, allVoters,
                   tasks, extraction, pageRun>>

\* an import that empties the collection before it validates the text
DataFileRead_ClearsFirst ==
    /\ csvRun.pc = "reading"
    /\ LET r == ParseCSVText(csvRun.text)
       IN IF r.ok
          THEN /\ CommitCSV(r.loaded, "FILE")
               /\ csvRun' = [csvRun EXCEPT !.pc = "loaded"]
          ELSE /\ status' = [total |-> 0, current |-> 0,
                             message |-> "Error loading CSV: " \o r.error,
                             isProcessing |-> FALSE]
               /\ csvRun' = [csvRun EXCEPT !.pc = "rejected", !.error = r.error]
               /\ voters' = <<>>
               /\ UNCHANGED view
    /\ UNCHANGED <<concurrency, apiKey, upload, pageQueue, allVoters, tasks,
                   extraction, pageRun>>

\* handleDataFileSelect after the await: processCSVText(text, 'FILE'), or the catch
DataFileRead ==
    /\ csvRun.pc = "reading"
    /\ LET r == ParseCSVText(csvRun.text)
       IN IF r.ok
          THEN /\ CommitCSV(r.loaded, "FILE")
               /\ csvRun' = [csvRun EXCEPT !.pc = "loaded"]
          ELSE /\ status' = [total |-> 0, current |-> 0,
                             message |-> "Error loading CSV: " \o r.error,
                             isProcessing |-> FALSE]
               /\ csvRun' = [csvRun EXCEPT !.pc = "rejected", !.error = r.error]
               /\ UNCHANGED <<voters, view>>
    /\ UNCHANGED <<concurrency, apiKey, upload, pageQueue, allVoters, tasks,
                   extraction, pageRun>>

\* values of the fields of a line that is written and parsed back
FieldValues ==
    {<<>>, <<"x">>, <<"w", ",", "v">>, <<"a", Quote, "b">>, <<Quote>>,
     <<"a", " ", "b">>}

FieldLists == UNION {[1..n -> FieldValues] : n \in 1..MaxRows}

\* parseCSVLine of the line whose fields are written the way generateCSVContent
\* writes a quoted field
ParseQuotedLine(fields) ==
    /\ csvRun.pc = "idle"
    /\ LET line == Join([i \in 1..Len(fields) |-> QuoteField(fields[i])], <<",">>)
       IN csvRun' = [csvRun EXCEPT !.pc = "parsed", !.fields = fields, !.text = line,
                                   !.cols = parseCSVLine(line, ",")]
    /\ UNCHANGED <<voters, view, concurrency, status, apiKey, upload, pageQueue,
                   allVoters, tasks, extraction, pageRun>>

NextCSV ==
    \/ DownloadCSV
    \/ \E text \in ImportTexts \cup {csvRun.text} : HandleDataFileSelect(text)
    \/ DataFileRead
    \/ \E fields \in FieldLists : ParseQuotedLine(fields)

SpecCSV == InitCSV /\ [][NextCSV]_vars

----------------------------------------------------------------------------
(* Properties of the upload handler, checked under Spec and SpecFair *)

KeyFields(collection) ==
    [i \in 1..Len(collection) |->
        <<collection[i].sl_no, collection[i].epic_no, collection[i].name_en>>]

\* the rows the endpoint's bodies hold: serial number, id and name of each
ExpectedRows(body) ==
    IF body = BodyOneRow THEN << <<<<"1">>, <<"A", "1">>, <<"x">>>> >>
    ELSE IF body = BodyMixed
         THEN << <<<<"1">>, <<"A", "1">>, <<"x">>>>,
                 <<<<"2">>, <<"B", "2">>, <<"w", ",", "v">>>> >>
    ELSE IF body = BodyNoEpic
         THEN << <<<<"5">>, <<>>, <<"m">>>>, <<<<"6">>, <<>>, <<"n">>>> >>
    ELSE <<>>

LocalStarted == upload.localStarts > 0 \/ StartedPages # {} \/ pageQueue # <<>>

C9_State ==
    /\ upload.pc # "idle" => upload.cloudRequests = 1
    /\ LocalStarted => upload.cloud = "failed"
    /\ upload.cloud = "imported" => upload.pc = "finished" /\ ~LocalStarted

C9_Step ==
    \A outcome \in CloudOutcomes :
        (/\ CloudUploadResponds(outcome)
         /\ outcome.kind = "ok"
         /\ ExpectedRows(outcome.body) # <<>>)
            => /\ upload'.cloud = "imported"
               /\ Len(voters') = Len(ExpectedRows(outcome.body))
               /\ KeyFields(voters') = ExpectedRows(outcome.body)

\* C9: an upload issues one cloud request, and local page processing only starts
\* after that request has failed; when the request succeeds with a body that holds
\* at least one record, the collection becomes exactly the records of the body and
\* the local fallback is never started for that upload.
C9_CloudFirst == []C9_State /\ [][C9_Step]_vars

C9_Witness ==
    /\ upload.cloud = "imported"
    /\ upload.cloudRequests = 1
    /\ Len(voters) = 2
    /\ voters[2].name_en = <<"w", ",", "v">>

\* the catch of handleFileUpload has caught a transport failure
CloudFailed == upload.error \in {"unreachable", "status"}

C10_State ==
    CloudFailed =>
        /\ upload.pc = "timer"
        /\ status.isProcessing
        /\ status.message = "Switching to Local Engine..."

C10_Step ==
    /\ \A outcome \in CloudOutcomes :
           (outcome.kind \in {"unreachable", "status"} /\ CloudUploadResponds(outcome))
               => /\ CloudFailed'
                  /\ status.isProcessing /\ status'.isProcessing
                  /\ status'.message # status.message
                  /\ ~IsErrorMessage(status'.message)
    /\ CloudFailed => upload'.file = upload.file

\* C10: when the cloud upload fails (endpoint unreachable or non-2xx status) the
\* handler sets no terminal error: isProcessing stays true, only the message
\* changes, and processPdfLocally is eventually started for the same file.
C10_FailureFallsBack ==
    /\ []C10_State
    /\ [][C10_Step]_vars
    /\ CloudFailed ~> (upload.pc = "opening" /\ upload.localStarts = 1)

C10_Witness ==
    /\ CloudFailed
    /\ upload.error = "status"
    /\ status.isProcessing
    /\ voters = <<>>

\* C12: the processing status is transient: once the run of an upload has ended
\* (the cloud response was imported, or the local fallback ended with records,
\* with no records or with an error), status.isProcessing is false.
C12_StatusTransient == upload.pc = "finished" => ~status.isProcessing

----------------------------------------------------------------------------
(* Poll state of the records, checked under Spec *)

Unmarked(v) == ~v.isVoted /\ v.votedParty = Null /\ v.timestamp = NoTimestamp

\* a poll-marking action of the dashboard applied to voters[i]
MarkingOf(i) ==
    \/ \E party \in PartyNames, now \in Times : HandlePartySelect(i, party, now)
    \/ \E now \in Times : HandleVoteToggle(i, now)

C11_Step ==
    \A i \in 1..Len(voters') :
        ~Unmarked(voters'[i]) =>
            \/ i <= Len(voters) /\ voters[i] = voters'[i]
            \/ MarkingOf(i)

\* C11: every record an upload puts into the collection has isVoted = false,
\* votedParty = null and no timestamp, and a record only leaves that state by a
\* poll-marking action of the dashboard applied to it.
C11_PollStateUnset == [][C11_Step]_vars

----------------------------------------------------------------------------
(* Properties of export and import, checked under SpecCSV *)

SameButPhoto(v, w) == v = [w EXCEPT !.photoBase64 = v.photoBase64]

\* C13: importing the text exported from a collection of at least one record
\* yields a collection of the same length and order whose records equal the
\* originals on every field except photoBase64.
C13_RoundTrip ==
    (csvRun.exported /\ csvRun.pc \in {"loaded", "rejected"}) =>
        /\ csvRun.pc = "loaded"
        /\ Len(voters) = Len(csvRun.before)
        /\ \A i \in 1..Len(voters) : SameButPhoto(voters[i], csvRun.before[i])

\* what reading a text must give: the error, or serial number, id and name of the
\* records in file order
Rejected(message) == [ok |-> FALSE, error |-> message, rows |-> <<>>]
Accepted(rows) == [ok |-> TRUE, error |-> "", rows |-> rows]

ExpectedImport(text) ==
    IF text \in {<<>>, <<BOM>>, HeaderRow, HeaderRow \o <<"\n", " ", "\r", "\n">>}
    THEN Rejected("Data appears to be empty or missing headers.")
    ELSE IF text = HeaderRow \o <<"\n">> \o RowShort
    THEN Rejected("No valid voter records parsed.")
    ELSE IF text \in PollTexts
    THEN Accepted(<< <<<<"5">>, <<"E", "5">>, <<"r">>>> >>)
    ELSE IF text = BodyVoted
    THEN Accepted(<< <<<<"4">>, <<"D", "4">>, <<"q">>>> >>)
    ELSE IF text \in CloudBodies
    THEN Accepted(ExpectedRows(text))
    ELSE Accepted(<< <<<<"1">>, <<"A", ",", "1">>, <<"x">>>> >>)

C15_DoubledQuotes ==
    csvRun.pc = "parsed" =>
        /\ Len(csvRun.cols) = Len(csvRun.fields)
        /\ \A i \in 1..Len(csvRun.fields) : csvRun.cols[i] = csvRun.fields[i]

SameLetter(c, d) ==
    c = d \/ \E k \in 1..Len(LowerCase) : {c, d} = {LowerCase[k], UpperCase[k]}

EqualsIgnoringCase(a, b) ==
    Len(a) = Len(b) /\ \A i \in 1..Len(a) : SameLetter(a[i], b[i])

\* the column a cell is read as: without the enclosing quotes and outer blanks
CellValue(cell) ==
    IF cell = <<Quote, "B", ",", "R", Quote>> THEN <<"B", ",", "R">>
    ELSE IF cell = <<" ", "y", "E", "S">> THEN <<"y", "E", "S">>
    ELSE cell

\* C16: an imported row has isVoted true exactly when its voted column equals
\* "YES" without regard to case, and votedParty null exactly when its party column
\* is missing, empty or the text "null", the text of the party column otherwise.
C16_PollColumns ==
    \A voted \in VotedCells, party \in PartyCells, withParty \in BOOLEAN :
        (/\ csvRun.pc = "loaded"
         /\ csvRun.text = HeaderRow \o <<"\n">> \o PollRow(voted, party, withParty))
            => /\ Len(voters) = 1
               /\ voters[1].isVoted
                      <=> EqualsIgnoringCase(CellValue(voted), <<"Y", "E", "S">>)
               /\ voters[1].votedParty =
                      IF ~withParty \/ CellValue(party) \in {<<>>, <<"n", "u", "l", "l">>}
                      THEN Null ELSE CellValue(party)

C16_Witness ==
    /\ csvRun.pc = "loaded"
    /\ csvRun.text = HeaderRow \o <<"\n">>
                         \o PollRow(<<"y", "e", "s">>, <<"n", "u", "l", "l">>, TRUE)
    /\ voters[1].isVoted
    /\ voters[1].votedParty = Null

----------------------------------------------------------------------------
(* Regular expressions of the layout strategies: String.prototype.match and
   RegExp.prototype.test over a text, by backtracking in the order of the
   ECMAScript matcher *)

\* the characters of a string literal
Chars(s) == [i \in 1..Len(s) |-> SubSeq(s, i, i)]

\* the nodes of a pattern
Lit(word) == [kind |-> "lit", word |-> word]
OneOf(chars) == [kind |-> "set", chars |-> chars]
AnyChar == [kind |-> "any"]
StartOfText == [kind |-> "start"]
EndOfText == [kind |-> "end"]
Cat(parts) == [kind |-> "cat", parts |-> parts]
Alt(parts) == [kind |-> "alt", parts |-> parts]
Group(n, part) == [kind |-> "group", n |-> n, part |-> part]
\* part{min,max} of a character class part, part{min,} when not bounded; lazy
\* for the ? suffix
Rep(part, min, max, bounded, lazy) ==
    [kind |-> "rep", part |-> part, min |-> min, max |-> max, bounded |-> bounded,
     lazy |-> lazy]

Star(part) == Rep(part, 0, 0, FALSE, FALSE)
Plus(part) == Rep(part, 1, 0, FALSE, FALSE)
LazyStar(part) == Rep(part, 0, 0, FALSE, TRUE)
LazyPlus(part) == Rep(part, 1, 0, FALSE, TRUE)
Exactly(part, n) == Rep(part, n, n, TRUE, FALSE)
AtLeast(part, n) == Rep(part, n, 0, FALSE, FALSE)

\* character classes
DigitChars == {Digits[i] : i \in 1..Len(Digits)}
UpperChars == {UpperCase[i] : i \in 1..Len(UpperCase)}
LowerChars == {LowerCase[i] : i \in 1..Len(LowerCase)}
LetterChars == UpperChars \cup LowerChars
SpaceChars == {" ", "\t", "\n", "\r", BOM}
LineTerminators == {"\n", "\r"}

UpperOf == [c \in LowerChars |-> UpperCase[IndexOf(LowerCase, c)]]
LowerOf == [c \in UpperChars |-> LowerCase[IndexOf(UpperCase, c)]]

\* canonicalisation of a character under the i flag
Fold(c) == IF c \in LowerChars THEN UpperOf[c] ELSE c

SameChar(a, b, ignoreCase) == IF ignoreCase THEN Fold(a) = Fold(b) ELSE a = b

\* the character is in the class, under the i flag in either case
InClass(c, chars, ignoreCase) ==
    \/ c \in chars
    \/ ignoreCase /\ c \in LowerChars /\ UpperOf[c] \in chars
    \/ ignoreCase /\ c \in UpperChars /\ LowerOf[c] \in chars

\* no group has captured
NoCaptures == <<<<0, 0>>, <<0, 0>>>>

\* the character at index i is one the node set or any accepts
Accepts(ctx, node, i) ==
    IF node.kind = "any" THEN ctx.text[i] \notin LineTerminators
    ELSE InClass(ctx.text[i], node.chars, ctx.ignoreCase)

\* the number of characters from index i on that the node accepts in a row
Least(S) == CHOOSE j \in S : \A k \in S : j <= k

RunLength(ctx, node, i) ==
    Least({j \in i..(Len(ctx.text) + 1) :
              j = Len(ctx.text) + 1 \/ ~Accepts(ctx, node, j)}) - i

\* the matches of a group: those of its part, with the group's capture recorded
GroupMatches(inner, n, i) ==
    [k \in 1..Len(inner) |->
        [end |-> inner[k].end,
         caps |-> [inner[k].caps EXCEPT ![n] = <<i, inner[k].end>>]]]

\* the matches of a repeated character class that accepts run characters from
\* index i on: every length from min up to the run (and max), the longest
\* first, or the shortest first when lazy
RepMatches(node, i, caps, run) ==
    LET most == IF node.bounded /\ node.max < run THEN node.max ELSE run
        count == IF most >= node.min THEN most - node.min + 1 ELSE 0
    IN [k \in 1..count |->
           [end |-> IF node.lazy THEN i + node.min + k - 1 ELSE i + most - k + 1,
            caps |-> caps]]

\* the ways a node can match text from index i on, best first: the index after
\* the match and the groups captured so far
RECURSIVE MatchNode(_, _, _, _)
RECURSIVE MatchEach(_, _, _, _, _)
RECURSIVE MatchCat(_, _, _, _)
RECURSIVE MatchAlt(_, _, _, _, _)

MatchNode(ctx, node, i, caps) ==
    LET text == ctx.text
    IN CASE node.kind = "lit" ->
                IF /\ i + Len(node.word) - 1 <= Len(text)
                   /\ \A k \in 1..Len(node.word) :
                          SameChar(text[i + k - 1], node.word[k], ctx.ignoreCase)
                THEN <<[end |-> i + Len(node.word), caps |-> caps]>> ELSE <<>>
         [] node.kind \in {"set", "any"} ->
                IF i <= Len(text) /\ Accepts(ctx, node, i)
                THEN <<[end |-> i + 1, caps |-> caps]>> ELSE <<>>
         [] node.kind = "start" ->
                IF i = 1 THEN <<[end |-> i, caps |-> caps]>> ELSE <<>>
         [] node.kind = "end" ->
                IF i = Len(text) + 1 THEN <<[end |-> i, caps |-> caps]>> ELSE <<>>
         [] node.kind = "cat" ->
                MatchCat(ctx, node.parts, 1, <<[end |-> i, caps |-> caps]>>)
         [] node.kind = "alt" -> MatchAlt(ctx, node.parts, 1, i, caps)
         [] node.kind = "group" ->
                GroupMatches(MatchNode(ctx, node.part, i, caps), node.n, i)
         [] node.kind = "rep" ->
                RepMatches(node, i, caps, RunLength(ctx, node.part, i))

\* node matched after each of the matches lo..hi so far
MatchEach(ctx, node, sofar, lo, hi) ==
    IF lo > hi THEN <<>>
    ELSE IF lo = hi THEN MatchNode(ctx, node, sofar[lo].end, sofar[lo].caps)
    ELSE LET mid == (lo + hi) \div 2
         IN MatchEach(ctx, node, sofar, lo, mid)
                \o MatchEach(ctx, node, sofar, mid + 1, hi)

MatchCat(ctx, parts, k, sofar) ==
    IF k > Len(parts) THEN sofar
    ELSE MatchCat(ctx, parts, k + 1, MatchEach(ctx, parts[k], sofar, 1, Len(sofar)))

MatchAlt(ctx, parts, k, i, caps) ==
    IF k > Len(parts) THEN <<>>
    ELSE MatchNode(ctx, parts[k], i, caps) \o MatchAlt(ctx, parts, k + 1, i, caps)

NoMatch == [found |-> FALSE, start |-> 0, end |-> 0, caps |-> NoCaptures]

\* text.match(pattern) for a pattern without the g flag: the first match from the
\* leftmost index that has one
MatchAt(i, best) == [found |-> TRUE, start |-> i, end |-> best.end, caps |-> best.caps]

FirstMatch(at, starts) ==
    IF starts = {} THEN NoMatch ELSE MatchAt(Least(starts), at[Least(starts)][1])

LeftmostMatch(at) == FirstMatch(at, {i \in DOMAIN at : at[i] # <<>>})

Exec(pattern, ignoreCase, text) ==
    LeftmostMatch([i \in 1..(Len(text) + 1) |->
                      MatchNode([text |-> text, ignoreCase |-> ignoreCase], pattern,
                                i, NoCaptures)])

\* m[0] and m[n] of a match
Matched(text, m) == SubSeq(text, m.start, m.end - 1)
Captured(text, m, n) == SubSeq(text, m.caps[n][1], m.caps[n][2] - 1)

\* the characters U+00E2, U+20AC and U+2122 of the RELATIVE pattern
MisdecodedApostrophe == {"U+00E2", "U+20AC", "U+2122"}

\* (?:Father|Husband|Mother|Guardian)
RelativeWords ==
    <<Lit(Chars("Father")), Lit(Chars("Husband")), Lit(Chars("Mother")),
      Lit(Chars("Guardian"))>>

\* House|Age|Gender|Sex|Elector|Photo|$
NextFieldWords ==
    <<Lit(Chars("House")), Lit(Chars("Age")), Lit(Chars("Gender")), Lit(Chars("Sex")),
      Lit(Chars("Elector")), Lit(Chars("Photo")), EndOfText>>

\* [:\s\-\.]
LabelSeparators == OneOf({":", "-", "."} \cup SpaceChars)

\* PATTERNS.NAME, flag i
NAME ==
    Cat(<<Lit(Chars("Name")), Plus(LabelSeparators), Group(1, LazyPlus(AnyChar)),
          Alt(RelativeWords \o NextFieldWords)>>)

\* PATTERNS.RELATIVE, flag i
RELATIVE ==
    Cat(<<Alt(RelativeWords),
          Star(OneOf({"'"} \cup MisdecodedApostrophe \cup SpaceChars)),
          Lit(Chars("Name")), Plus(LabelSeparators), Group(1, LazyPlus(AnyChar)),
          Alt(NextFieldWords)>>)

\* PATTERNS.HOUSE, flag i
HOUSE ==
    Cat(<<Alt(<<Lit(Chars("House")), Lit(Chars("No")), Lit(Chars("H.No")),
                Lit(Chars("Ho"))>>),
          Plus(LabelSeparators),
          Group(1, LazyPlus(OneOf(DigitChars \cup LetterChars \cup SpaceChars
                                      \cup {"-", "/"}))),
          Alt(<<Lit(Chars("Age")), Lit(Chars("Gender")), Lit(Chars("Sex")),
                EndOfText>>)>>)

\* PATTERNS.AGE_GENDER, flag i
AGE_GENDER ==
    Cat(<<Alt(<<Lit(Chars("Age")), Lit(Chars("Aqe"))>>),
          Star(OneOf({":", "-"} \cup SpaceChars)),
          Group(1, Plus(OneOf(DigitChars))),
          Star(OneOf(SpaceChars)),
          Alt(<<Lit(Chars("Gender")), Lit(Chars("Sex"))>>),
          Star(OneOf({":", "-"} \cup SpaceChars)),
          Group(2, Plus(OneOf(LetterChars)))>>)

\* PATTERNS.EPIC, no flag
EPIC ==
    Group(1, Alt(<<Cat(<<Exactly(OneOf(UpperChars), 3),
                         Exactly(OneOf({"O"} \cup DigitChars), 7)>>),
                   Cat(<<AtLeast(OneOf(UpperChars), 3), AtLeast(OneOf(DigitChars), 5),
                         Star(OneOf(UpperChars \cup DigitChars))>>)>>))

\* /^(\d+)/
LeadingNumber == Cat(<<StartOfText, Group(1, Plus(OneOf(DigitChars)))>>)

\* /Assembly.*?Constituency[:\s-]*([A-Za-z\s]+)/i
AssemblyHeader ==
    Cat(<<Lit(Chars("Assembly")), LazyStar(AnyChar), Lit(Chars("Constituency")),
          Star(OneOf({":", "-"} \cup SpaceChars)),
          Group(1, Plus(OneOf(LetterChars \cup SpaceChars)))>>)

\* /Polling.*?Station[:\s-]*([0-9A-Za-z\s\-\.]+)/i
PollingStationHeader ==
    Cat(<<Lit(Chars("Polling")), LazyStar(AnyChar), Lit(Chars("Station")),
          Star(OneOf({":", "-"} \cup SpaceChars)),
          Group(1, Plus(OneOf(DigitChars \cup LetterChars \cup SpaceChars
                                  \cup {"-", "."})))>>)

----------------------------------------------------------------------------
(* Layout strategies of the local service: extractVotersFromDigitalText over
   the text items of a page and extractVotersFromImage over the words an OCR
   engine recognised *)

Abs(n) == IF n < 0 THEN 0 - n ELSE n

HexDigits == Chars("0123456789ABCDEF")

\* the characters U+0020 .. U+007E in code order
Printable ==
    Chars(" !\"#$%&'()*+,-./0123456789:;<=>?@ABCDEFGHIJKLMNOPQRSTUVWXYZ[\\]^_")
        \o <<Backtick>> \o Chars("abcdefghijklmnopqrstuvwxyz{|}~")

\* the octet of the escape %hl as a character; no character when h or l is no
\* hexadecimal digit, when the octet is a control code, or when it is 0x80 or
\* more and so would have to begin a UTF-8 sequence (the items hold none)
EscapedChar(h, l) ==
    LET hi == IndexOf(HexDigits, Fold(h)) - 1
        lo == IndexOf(HexDigits, Fold(l)) - 1
        octet == (16 * hi) + lo
    IN IF hi < 0 \/ lo < 0 \/ octet < 32 \/ octet > 126 THEN <<>>
       ELSE <<Printable[octet - 31]>>

\* decodeURIComponent from index i on: the decoded text, or a URIError
RECURSIVE DecodeFrom(_, _, _)
DecodeFrom(str, i, decoded) ==
    IF i > Len(str) THEN [ok |-> TRUE, text |-> decoded]
    ELSE IF str[i] # "%" THEN DecodeFrom(str, i + 1, Append(decoded, str[i]))
    ELSE IF i + 2 > Len(str) \/ EscapedChar(str[i + 1], str[i + 2]) = <<>>
         THEN [ok |-> FALSE, text |-> <<>>]
    ELSE DecodeFrom(str, i + 3, decoded \o EscapedChar(str[i + 1], str[i + 2]))

decodeURIComponent(str) == DecodeFrom(str, 1, <<>>)

\* pattern.test(text)
Test(pattern, ignoreCase, text) == Exec(pattern, ignoreCase, text).found

\* .replace(/O/g, '0')
ReplaceO(text) == [i \in 1..Len(text) |-> IF text[i] = "O" THEN "0" ELSE text[i]]

\* the token's match of PATTERNS.EPIC with its letters O replaced: "" when the
\* token has no match
EpicOf(text) ==
    LET epicMatch == Exec(EPIC, FALSE, text)
    IN IF epicMatch.found THEN ReplaceO(Matched(text, epicMatch)) ELSE <<>>

\* .replace(/\s+/g, ' ')
CollapseSpaces(text) ==
    LET FirstOfRun(i) ==
            text[i] \notin SpaceChars \/ i = 1 \/ text[i - 1] \notin SpaceChars
        kept == SelectSeq([i \in 1..Len(text) |-> i], FirstOfRun)
    IN [k \in 1..Len(kept) |->
           IF text[kept[k]] \in SpaceChars THEN " " ELSE text[kept[k]]]

\* the texts of the tokens joined with one space
JoinTexts(tokens) == Join([i \in 1..Len(tokens) |-> tokens[i].text], <<" ">>)

\* the header of the page: assembly and pollingStation
HeaderFields(headerText) ==
    LET asmMatch == Exec(AssemblyHeader, TRUE, headerText)
        psMatch == Exec(PollingStationHeader, TRUE, headerText)
    IN [assembly |-> IF asmMatch.found THEN Trim(Captured(headerText, asmMatch, 1))
                     ELSE <<>>,
        pollingStation |-> IF psMatch.found
                           THEN Trim(Captured(headerText, psMatch, 1)) ELSE <<>>]

\* a card whose name has no match keeps the empty text
CardFields_NoDefault(fullCardText) ==
    LET nameMatch == Exec(NAME, TRUE, fullCardText)
        relativeMatch == Exec(RELATIVE, TRUE, fullCardText)
        houseMatch == Exec(HOUSE, TRUE, fullCardText)
        ageGenderMatch == Exec(AGE_GENDER, TRUE, fullCardText)
        slNoMatch == Exec(LeadingNumber, FALSE, fullCardText)
    IN [sl_no |-> IF slNoMatch.found THEN Captured(fullCardText, slNoMatch, 1)
                  ELSE <<>>,
        name_en |-> IF nameMatch.found
                    THEN Trim(Captured(fullCardText, nameMatch, 1)) ELSE <<>>,
        relative_name |-> IF relativeMatch.found
                          THEN Trim(Captured(fullCardText, relativeMatch, 1))
                          ELSE <<>>,
        house_no |-> IF houseMatch.found
                     THEN Trim(Captured(fullCardText, houseMatch, 1)) ELSE <<>>,
        age |-> IF ageGenderMatch.found
                THEN Captured(fullCardText, ageGenderMatch, 1) ELSE <<>>,
        gender |-> IF ageGenderMatch.found
                   THEN Captured(fullCardText, ageGenderMatch, 2) ELSE <<>>]

\* Regex Extraction on the flattened text of a card, the same in both strategies
CardFields(fullCardText) ==
    LET nameMatch == Exec(NAME, TRUE, fullCardText)
        relativeMatch == Exec(RELATIVE, TRUE, fullCardText)
        houseMatch == Exec(HOUSE, TRUE, fullCardText)
        ageGenderMatch == Exec(AGE_GENDER, TRUE, fullCardText)
        slNoMatch == Exec(LeadingNumber, FALSE, fullCardText)
    IN [sl_no |-> IF slNoMatch.found THEN Captured(fullCardText, slNoMatch, 1)
                  ELSE <<>>,
        name_en |-> IF nameMatch.found
                    THEN Trim(Captured(fullCardText, nameMatch, 1))
                    ELSE Chars("Unknown"),
        relative_name |-> IF relativeMatch.found
                          THEN Trim(Captured(fullCardText, relativeMatch, 1))
                          ELSE <<>>,
        house_no |-> IF houseMatch.found
                     THEN Trim(Captured(fullCardText, houseMatch, 1)) ELSE <<>>,
        age |-> IF ageGenderMatch.found
                THEN Captured(fullCardText, ageGenderMatch, 1) ELSE <<>>,
        gender |-> IF ageGenderMatch.found
                   THEN Captured(fullCardText, ageGenderMatch, 2) ELSE <<>>]

\* voters.push({...}) of both strategies
CardVoter(fields, epic, header, photoBase64, pageNum) ==
    [sl_no |-> fields.sl_no,
     epic_no |-> epic,
     name_en |-> fields.name_en,
     name_te |-> <<>>,
     relative_name |-> fields.relative_name,
     house_no |-> fields.house_no,
     age |-> fields.age,
     gender |-> fields.gender,
     assembly_name |-> header.assembly,
     parliament_name |-> <<>>,
     polling_station_no |-> header.pollingStation,
     photoBase64 |-> photoBase64,
     originalPage |-> pageNum,
     isVoted |-> FALSE,
     votedParty |-> Null,
     timestamp |-> NoTimestamp]

\* the comparator of cardItems.sort in the digital-text strategy (y falls down
\* the page) and of cardWords.sort in the OCR strategy (y0 grows down the page)
Compare(strategy, a, b) ==
    IF strategy = "digital"
    THEN IF Abs(a.y - b.y) > 5 THEN b.y - a.y ELSE a.x - b.x
    ELSE IF Abs(a.bbox.y0 - b.bbox.y0) > 10 THEN a.bbox.y0 - b.bbox.y0
         ELSE a.bbox.x0 - b.bbox.x0

\* Array.prototype.sort, which is stable: tokens[1..n] in the order of Compare
RECURSIVE SortTokens(_, _, _)
SortTokens(strategy, tokens, n) ==
    IF n = 0 THEN <<>>
    ELSE LET sorted == SortTokens(strategy, tokens, n - 1)
             notAfter == {j \in 1..Len(sorted) :
                             Compare(strategy, sorted[j], tokens[n]) <= 0}
             at == IF notAfter = {} THEN 0
                   ELSE CHOOSE j \in notAfter : \A k \in notAfter : k <= j
         IN SubSeq(sorted, 1, at) \o <<tokens[n]>> \o SubSeq(sorted, at + 1, Len(sorted))

\* the search window of the digital-text strategy as its comment gives it
InWindow_AsCommented(item, epicItem) ==
    /\ item.x >= epicItem.x - 200 /\ item.x <= epicItem.x + 200
    /\ item.y >= epicItem.y - 100 /\ item.y <= epicItem.y + 80

\* the item lies in the search window of the anchor epicItem
InWindow(item, epicItem) ==
    /\ item.x >= epicItem.x - 200 /\ item.x <= epicItem.x + 200
    /\ item.y >= epicItem.y - 120 /\ item.y <= epicItem.y + 60

IsAnchor(token) == Test(EPIC, FALSE, token.text)

\* Math.max(...items.map(i => i.y)) of at least one item
MaxY(items) == CHOOSE y \in {items[i].y : i \in 1..Len(items)} :
                   \A i \in 1..Len(items) : items[i].y <= y

\* extractVotersFromDigitalText(textItems, pageNum): it throws when an item's str
\* does not decode, else it returns one record per anchor
extractVotersFromDigitalText(textItems, pageNum) ==
    IF \E i \in 1..Len(textItems) : ~decodeURIComponent(textItems[i].str).ok
    THEN [thrown |-> TRUE, regions |-> <<>>, voters |-> <<>>]
    ELSE LET items == [i \in 1..Len(textItems) |->
                          [text |-> decodeURIComponent(textItems[i].str).text,
                           x |-> textItems[i].x, y |-> textItems[i].y,
                           w |-> textItems[i].w, h |-> textItems[i].h]]
             \* i.y > pageHeight * 0.9; no item passes when there is none
             InHeader(item) == item.y * 10 > MaxY(items) * 9
             header == HeaderFields(JoinTexts(SelectSeq(items, InHeader)))
             epicItems == SelectSeq(items, IsAnchor)
             CardOf(epicItem) ==
                 LET Near(item) == InWindow(item, epicItem)
                     found == SelectSeq(items, Near)
                     cardItems == SortTokens("digital", found, Len(found))
                 IN [anchor |-> epicItem, tokens |-> cardItems,
                     text |-> CollapseSpaces(JoinTexts(cardItems))]
             regions == [k \in 1..Len(epicItems) |-> CardOf(epicItems[k])]
         IN [thrown |-> FALSE,
             regions |-> regions,
             voters |-> [k \in 1..Len(regions) |->
                            CardVoter(CardFields(regions[k].text),
                                      EpicOf(regions[k].anchor.text), header,
                                      Undefined, pageNum)]]

\* cardRegion of the OCR strategy
CardRegion(bbox) ==
    [x0 |-> bbox.x0 - 250, x1 |-> bbox.x1 + 100, y0 |-> bbox.y0 - 20,
     y1 |-> bbox.y1 + 140]

\* cropImage of the local service for the photo box of a card: the box is
\* [y0 + 30, x1 - 0.35 cardWidth, y1 - 10, x1], an empty box gives ""
CropCard(cardRegion) ==
    LET cardWidth == cardRegion.x1 - cardRegion.x0
        h == (cardRegion.y1 - 10) - (cardRegion.y0 + 30)
    IN IF 35 * cardWidth <= 0 \/ h <= 0 THEN <<>> ELSE <<"jpeg">>

\* extractVotersFromImage of the local service: the words the engine recognised,
\* or its failure, which the catch turns into the empty list
extractVotersFromImage(recognised, words, pageNumber, includePhotos) ==
    IF ~recognised THEN [thrown |-> FALSE, regions |-> <<>>, voters |-> <<>>]
    ELSE LET InHeader(w) == w.bbox.y1 < 150
             header == HeaderFields(JoinTexts(SelectSeq(words, InHeader)))
             \* a word passes !epicNo only with a match, which is never empty
             epics == SelectSeq(words, IsAnchor)
             CardOf(epicWord) ==
                 LET cardRegion == CardRegion(epicWord.bbox)
                     Inside(w) == /\ w.bbox.x0 >= cardRegion.x0
                                  /\ w.bbox.x1 <= cardRegion.x1
                                  /\ w.bbox.y0 >= cardRegion.y0
                                  /\ w.bbox.y1 <= cardRegion.y1
                     found == SelectSeq(words, Inside)
                     cardWords == SortTokens("ocr", found, Len(found))
                 IN [anchor |-> epicWord, tokens |-> cardWords,
                     text |-> JoinTexts(cardWords)]
             regions == [k \in 1..Len(epics) |-> CardOf(epics[k])]
         IN [thrown |-> FALSE,
             regions |-> regions,
             voters |-> [k \in 1..Len(regions) |->
                            CardVoter(CardFields(regions[k].text),
                                      EpicOf(regions[k].anchor.text), header,
                                      IF includePhotos
                                      THEN CropCard(CardRegion(regions[k].anchor.bbox))
                                      ELSE Undefined,
                                      pageNumber)]]

----------------------------------------------------------------------------
(* The layout strategies called on their own, over sample pages *)

CardKinds == <<"full", "bare", "long">>

\* n kinds of cards, taken in turn from the given one on
CardList(first, n) == [k \in 1..n |-> CardKinds[((first + k - 2) % Len(CardKinds)) + 1]]

\* a sample page: the kinds of its cards in page order, whether its anchors lie
\* farther apart than a window, whether it has a header line, whether its footer
\* holds a percent sign
Pages ==
    [cards : {CardList(first, n) : first \in 1..Len(CardKinds), n \in 0..MaxCards},
     apart : BOOLEAN, header : BOOLEAN, footer : BOOLEAN]

\* the tokens of a card of each kind: text, column offset from the anchor in
\* points, line below the anchor; the anchor is the token at offset 0 of line 0
CardTokens(kind) ==
    CASE kind = "full" ->
             <<[text |-> Chars("1"), dx |-> 0 - 150, line |-> 0],
               [text |-> Chars("ABC12O4567"), dx |-> 0, line |-> 0],
               [text |-> Chars("Name:"), dx |-> 0 - 150, line |-> 1],
               [text |-> Chars("Ravi"), dx |-> 0 - 100, line |-> 1],
               [text |-> Chars("Father"), dx |-> 0 - 150, line |-> 2],
               [text |-> Chars("Name:"), dx |-> 0 - 100, line |-> 2],
               [text |-> Chars("Raju"), dx |-> 0 - 50, line |-> 2],
               [text |-> Chars("H.No:"), dx |-> 0 - 150, line |-> 3],
               [text |-> Chars("7-1"), dx |-> 0 - 100, line |-> 3],
               [text |-> Chars("Age:"), dx |-> 0 - 150, line |-> 4],
               [text |-> Chars("30"), dx |-> 0 - 100, line |-> 4],
               [text |-> Chars("Gender:"), dx |-> 0 - 50, line |-> 4],
               [text |-> Chars("M"), dx |-> 20, line |-> 4]>>
      [] kind = "bare" ->
             <<[text |-> Chars("OAB1234567"), dx |-> 0, line |-> 0],
               [text |-> Chars("Age:"), dx |-> 0 - 150, line |-> 1],
               [text |-> Chars("41"), dx |-> 0 - 100, line |-> 1],
               [text |-> Chars("Sex:"), dx |-> 0 - 50, line |-> 1],
               [text |-> Chars("F"), dx |-> 20, line |-> 1],
               [text |-> Chars("Photo"), dx |-> 200, line |-> 6],
               [text |-> Chars("Edge"), dx |-> 201, line |-> 6],
               [text |-> Chars("Below"), dx |-> 0, line |-> 7]>>
      [] kind = "long" ->
             <<[text |-> Chars("12"), dx |-> 0 - 150, line |-> 0],
               [text |-> Chars("ID:WXYZ12345O7."), dx |-> 0, line |-> 0],
               [text |-> Chars("Name:"), dx |-> 0 - 150, line |-> 1],
               [text |-> Chars("Sita%20K"), dx |-> 0 - 100, line |-> 1],
               [text |-> Chars("Husband"), dx |-> 0 - 150, line |-> 2],
               [text |-> Chars("Name:"), dx |-> 0 - 100, line |-> 2],
               [text |-> Chars("Anil"), dx |-> 0 - 50, line |-> 2]>>

\* the footer of a page that has one
FooterToken == Chars("50%")

HeaderTokens ==
    <<Chars("Assembly"), Chars("Constituency:"), Chars("Kodad"), Chars("Polling"),
      Chars("Station:"), Chars("12-A")>>

\* where the k-th anchor of a page stands: columns 500 apart and rows 300 apart,
\* or 150 and 80 apart, so that the windows of neighbours overlap
AnchorColumn(k, apart) == 300 + (((k - 1) % 2) * (IF apart THEN 500 ELSE 150))
AnchorRow(k, apart) == ((k - 1) \div 2) * (IF apart THEN 300 ELSE 80)

RECURSIVE Flatten(_)
Flatten(lists) == IF lists = <<>> THEN <<>> ELSE Head(lists) \o Flatten(Tail(lists))

\* the text items of a page as pdf.js gives them, y growing up the page: the
\* header at y = 1000, the first row of anchors at y = 800, lines 20 apart, the
\* footer at y = 50
TextItems(page) ==
    LET Item(text, x, y) == [str |-> text, x |-> x, y |-> y, w |-> 40, h |-> 10]
        Card(k) ==
            LET tokens == CardTokens(page.cards[k])
            IN [i \in 1..Len(tokens) |->
                   Item(tokens[i].text,
                        AnchorColumn(k, page.apart) + tokens[i].dx,
                        (800 - AnchorRow(k, page.apart)) - (20 * tokens[i].line))]
        header == IF page.header
                  THEN [i \in 1..Len(HeaderTokens) |->
                           Item(HeaderTokens[i], 100 * i, 1000)]
                  ELSE <<>>
        footer == IF page.footer THEN <<Item(FooterToken, 300, 50)>> ELSE <<>>
    IN header \o Flatten([k \in 1..Len(page.cards) |-> Card(k)]) \o footer

\* the words of a page as the OCR engine gives them, y growing down the page:
\* the header at y0 = 50, the first row of anchors at y0 = 300, lines 20 apart,
\* the footer at y0 = 1500
Words(page) ==
    LET Word(text, x0, y0) ==
            [text |-> text,
             bbox |-> [x0 |-> x0, y0 |-> y0, x1 |-> x0 + 40, y1 |-> y0 + 10]]
        Card(k) ==
            LET tokens == CardTokens(page.cards[k])
            IN [i \in 1..Len(tokens) |->
                   Word(tokens[i].text,
                        AnchorColumn(k, page.apart) + tokens[i].dx,
                        (300 + AnchorRow(k, page.apart)) + (20 * tokens[i].line))]
        header == IF page.header
                  THEN [i \in 1..Len(HeaderTokens) |->
                           Word(HeaderTokens[i], 100 * i, 50)]
                  ELSE <<>>
        footer == IF page.footer THEN <<Word(FooterToken, 300, 1500)>> ELSE <<>>
    IN header \o Flatten([k \in 1..Len(page.cards) |-> Card(k)]) \o footer

InitLayout ==
    /\ voters = <<>>
    /\ view = "UPLOAD"
    /\ concurrency = 2
    /\ status = IdleStatus
    /\ apiKey = TRUE
    /\ upload = NoUpload
    /\ pageQueue = <<>>
    /\ allVoters = <<>>
    /\ tasks = [p \in 1..MaxPages |-> NoTask]
    /\ extraction = NoExtraction
    /\ csvRun = NoCsvRun
    /\ \E page \in Pages :
           \/ pageRun = [NoPageRun EXCEPT !.strategy = "digital",
                                          !.tokens = TextItems(page),
                                          !.pageNum = 3]
           \/ \E includePhotos \in BOOLEAN :
                  pageRun = [NoPageRun EXCEPT !.strategy = "ocr",
                                              !.tokens = Words(page),
                                              !.pageNum = MaxPages,
                                              !.includePhotos = includePhotos]

\* extractVotersFromDigitalText is called with the items of the page
ExtractDigitalText ==
    /\ pageRun.pc = "idle"
    /\ pageRun.strategy = "digital"
    /\ LET r == extractVotersFromDigitalText(pageRun.tokens, pageRun.pageNum)
       IN pageRun' = [pageRun EXCEPT !.pc = IF r.thrown THEN "thrown" ELSE "returned",
                                     !.regions = r.regions, !.result = r.voters]
    /\ UNCHANGED <<voters, view, concurrency, status, apiKey, upload, pageQueue,
                   allVoters, tasks, extraction, csvRun>>

\* extractVotersFromImage of the local service is called with the image of the
\* page; the engine recognises its words or fails
ExtractFromImage(recognised) ==
    /\ pageRun.pc = "idle"
    /\ pageRun.strategy = "ocr"
    /\ LET r == extractVotersFromImage(recognised, pageRun.tokens, pageRun.pageNum,
                                       pageRun.includePhotos)
       IN pageRun' = [pageRun EXCEPT !.pc = IF recognised THEN "returned"
                                            ELSE "caught",
                                     !.regions = r.regions, !.result = r.voters]
    /\ UNCHANGED <<voters, view, concurrency, status, apiKey, upload, pageQueue,
                   allVoters, tasks, extraction, csvRun>>

NextLayout ==
    \/ ExtractDigitalText
    \/ \E recognised \in BOOLEAN : ExtractFromImage(recognised)

SpecLayout == InitLayout /\ [][NextLayout]_vars

----------------------------------------------------------------------------
(* extractVotersFromImage called on its own, for every page number and flag *)

AppVars ==
    <<voters, view, concurrency, status, upload, pageQueue, allVoters, tasks, csvRun, pageRun>>

InitCall ==
    /\ csvRun = NoCsvRun
    /\ pageRun = NoPageRun
    /\ voters = <<>>
    /\ view = "UPLOAD"
    /\ concurrency = 2
    /\ status = IdleStatus
    /\ apiKey \in BOOLEAN
    /\ upload = NoUpload
    /\ pageQueue = <<>>
    /\ allVoters = <<>>
    /\ tasks = [p \in 1..MaxPages |-> NoTask]
    /\ extraction \in [pageNumber : 1..MaxPages, includePhotos : BOOLEAN,
                       call : {NoCall}]

\* the call is made: the key check and the first request
ExtractStart ==
    /\ extraction.call.pc = "idle"
    /\ extraction' = [extraction EXCEPT !.call = StartCall(apiKey)]
    /\ UNCHANGED <<AppVars, apiKey>>

\* its generateContent request comes back
ExtractResponds(resp, jitter) ==
    /\ extraction.call.pc = "request"
    /\ extraction' = [extraction EXCEPT !.call =
                         HandleResponse(@, resp, extraction.pageNumber,
                                        extraction.includePhotos, jitter)]
    /\ UNCHANGED <<AppVars, apiKey>>

\* its backoff sleep ends
ExtractBackoffElapsed ==
    /\ extraction.call.pc = "sleep"
    /\ extraction' = [extraction EXCEPT !.call = IssueRequest(@)]
    /\ UNCHANGED <<AppVars, apiKey>>

NextCall ==
    \/ ExtractStart
    \/ \E resp \in Responses, jitter \in JitterSamples : ExtractResponds(resp, jitter)
    \/ ExtractBackoffElapsed

SpecCall == InitCall /\ [][NextCall]_vars

----------------------------------------------------------------------------
(* Properties of the vision-model strategy, checked under SpecCall *)

\* the outcomes of a call are k failures followed by one parseable response
FailedThenParsed(call, k) ==
    /\ Len(call.outcomes) = k + 1
    /\ \A i \in 1..k : call.outcomes[i] = "failed"
    /\ call.outcomes[k + 1] = "parsed"

\* the outcomes of a call are n failures and nothing else
AllFailed(call, n) ==
    /\ Len(call.outcomes) = n
    /\ \A i \in 1..n : call.outcomes[i] = "failed"

\* C1: the requests of one call are numbered i = 0, 1, 2, ...; request i uses
\* FALLBACK_MODELS[i mod 3], and a call never issues more than 6 requests.
C1_ModelRotation ==
    LET requests == extraction.call.requests
    IN /\ Len(requests) <= 6
       /\ \A i \in 0..(Len(requests) - 1) :
              requests[i + 1] = FALLBACK_MODELS[(i % 3) + 1]

C1_Witness ==
    /\ Len(extraction.call.requests) = 6
    /\ extraction.call.requests[5] = "gemini-2.5-flash"

\* C2: when the first k requests fail (0 <= k <= 5) and request k+1 comes back
\* parseable, exactly k+1 requests have been issued, the call has returned (so no
\* request follows), and it returns one record per element parsed from that
\* response, in order, carrying the element's values (the empty text for a missing
\* one) and the page number of the call.
C2_ReturnsFirstParseable ==
    \A k \in 0..5 :
        FailedThenParsed(extraction.call, k) =>
            LET call == extraction.call
            IN /\ Len(call.requests) = k + 1
               /\ call.pc = "returned"
               /\ call.sleeps = k
               /\ Len(call.result) = Len(call.rawData)
               /\ \A i \in 1..Len(call.rawData) :
                      /\ call.result[i].epic_no = OrEmpty(call.rawData[i].epic_no)
                      /\ call.result[i].name_en = OrEmpty(call.rawData[i].name_en)
                      /\ call.result[i].originalPage = extraction.pageNumber

C2_Witness ==
    /\ FailedThenParsed(extraction.call, 2)
    /\ Len(extraction.call.rawData) = 1
    /\ Len(extraction.call.result) = 1
    /\ Len(extraction.call.requests) = 3
    /\ extraction.call.requests[3] = "gemini-2.0-flash"

\* C3: when 6 requests in a row fail, the call has issued exactly 6 requests and
\* has returned the empty list: it has not thrown, and it slept after the first 5
\* failures only, not after the 6th.
C3_ExhaustionReturnsEmpty ==
    AllFailed(extraction.call, 6) =>
        /\ extraction.call.pc = "returned"
        /\ extraction.call.result = <<>>
        /\ Len(extraction.call.requests) = 6
        /\ extraction.call.sleeps = 5
        /\ extraction.call.delay = 0

C3_Witness == AllFailed(extraction.call, 6) /\ extraction.call.pc = "returned"

\* the model a retry moves to
NextInRotation(model) ==
    IF model = "gemini-3-pro-preview" THEN "gemini-2.5-flash"
    ELSE IF model = "gemini-2.5-flash" THEN "gemini-2.0-flash"
    ELSE "gemini-3-pro-preview"

Failures(call) == Len(SelectSeq(call.outcomes, LAMBDA o : o = "failed"))

\* C17: after the n-th failed request (1 <= n <= 5) the call sleeps d ms with
\* 1500 n <= d < 1500 n + 500 before the next request, which goes to the next
\* model of the rotation; there is no sleep before the first request and none
\* after the sixth failure.
C17_Backoff ==
    LET call == extraction.call
        n == Failures(call)
    IN /\ call.pc = "sleep" =>
              /\ n \in 1..5
              /\ call.sleeps = n
              /\ Len(call.requests) = n
              /\ 1500 * n <= call.delay
              /\ call.delay < (1500 * n) + 500
       /\ call.pc = "request" =>
              /\ call.sleeps = Len(call.requests) - 1
              /\ call.sleeps = n
       /\ call.pc = "returned" => call.sleeps = IF n = 6 THEN 5 ELSE n
       /\ \A k \in 1..(Len(call.requests) - 1) :
              call.requests[k + 1] = NextInRotation(call.requests[k])

C17_Witness ==
    /\ extraction.call.pc = "sleep"
    /\ Failures(extraction.call) = 5
    /\ extraction.call.delay = 7999

\* the number of records the JSON content of a response stands for
RecordsIn(resp) == IF resp.kind = "object" THEN 1 ELSE resp.n

\* the raw records the JSON content of a response holds
RawsIn(resp) == IF resp.kind = "object" THEN <<RawData(resp.n)[resp.n]>>
                ELSE RawData(resp.n)

C18_Accepts(resp) ==
    LET call == extraction'.call
    IN /\ call.pc = "returned"
       /\ call.requests = extraction.call.requests
       /\ Len(call.result) = RecordsIn(resp)
       /\ \A i \in 1..RecordsIn(resp) : \A k \in 1..Len(TextFields) :
              call.result[i][TextFields[k]] = OrEmpty(RawsIn(resp)[i][TextFields[k]])

\* C18: a response whose JSON content is an array of n objects, one object or a
\* {voters: [n objects]} wrapper, bare, after prose or inside a code fence, ends
\* the call without a further request and yields n, 1 and n records, each with
\* the values of its object and the empty text for a missing text field.
C18_ResponseShapes ==
    [][\A resp \in Responses, jitter \in JitterSamples :
          (resp.kind \in {"array", "object", "wrapper"}
              /\ ExtractResponds(resp, jitter)) => C18_Accepts(resp)]_vars

\* the records of one page stand next to each other in the collection
Contiguous(collection) ==
    \A i \in 1..Len(collection) : \A k \in i..Len(collection) :
        collection[i].originalPage = collection[k].originalPage =>
            \A j \in i..k : collection[j].originalPage = collection[i].originalPage

\* the collection holds, for every page task that has ended, exactly the list
\* that task got, as one block, and nothing else
ConcatenationOfPages(collection) ==
    /\ Contiguous(collection)
    /\ \A p \in 1..MaxPages :
           RecordsOf(collection, p) =
               IF tasks[p].pc = "done" THEN tasks[p].call.result ELSE <<>>
    /\ Len(collection) = SumYields(MaxPages)

\* collection `after` is collection `before` followed by the whole list of one
\* page task that ends in this step
AppendsOnePage(before, after) ==
    /\ Len(after) >= Len(before)
    /\ SubSeq(after, 1, Len(before)) = before
    /\ after # before =>
           \E p \in 1..MaxPages :
               /\ tasks[p].pc = "extract" /\ tasks'[p].pc = "done"
               /\ SubSeq(after, Len(before) + 1, Len(after)) = tasks'[p].call.result

C19_State ==
    upload.localStarts = 1 =>
        ConcatenationOfPages(voters) /\ ConcatenationOfPages(allVoters)

C19_Step ==
    (upload.localStarts = 1 /\ upload'.localStarts = 1) =>
        AppendsOnePage(voters, voters') /\ AppendsOnePage(allVoters, allVoters')

\* C19: during the local fallback the collection only grows at its end: a step
\* leaves the records it holds as they are, in their order, and adds the whole
\* list of one page task behind them; at every moment, and so when the run has
\* finished, it is the concatenation of the lists of the page tasks that have
\* ended, each list once and in one block, whatever order the tasks ended in.
C19_AppendOnly == []C19_State /\ [][C19_Step]_vars

C19_Witness ==
    /\ LocalRunFinished
    /\ Len(voters) = 3 * MaxYield
    /\ voters[1].originalPage = 5
    /\ voters[MaxYield + 1].originalPage = 3
    /\ voters[(2 * MaxYield) + 1].originalPage = 4

\* C20: all records one extraction call returns for its page carry the same
\* assembly_name, the same parliament_name and the same polling_station_no.
C20_SamePageContext ==
    LET result == extraction.call.result
    IN extraction.call.pc = "returned" =>
           \A i \in 1..Len(result) : \A j \in 1..Len(result) :
               /\ result[i].assembly_name = result[j].assembly_name
               /\ result[i].parliament_name = result[j].parliament_name
               /\ result[i].polling_station_no = result[j].polling_station_no

\* C21: originalPage is a 1-based page index: the records a page task got for
\* page p carry p, the records the local fallback has put in the collection carry
\* a page from 3 on, and no record of the collection, whether extracted or
\* imported, carries a page below 1.
C21_SourcePage ==
    /\ \A p \in 1..MaxPages : \A i \in 1..Len(tasks[p].call.result) :
           tasks[p].call.result[i].originalPage = p
    /\ upload.localStarts = 1 =>
           \A i \in 1..Len(voters) : voters[i].originalPage >= 3
    /\ \A i \in 1..Len(voters) : voters[i].originalPage >= 1

----------------------------------------------------------------------------
(* Properties of the layout strategies, checked under SpecLayout *)

\* the number of leading letters of a matched id: three when the digit segment
\* is the seven characters [O0-9] that follow them, else the whole run of letters
LetterSegment(raw) ==
    IF /\ Len(raw) = 10
       /\ \A i \in 1..3 : raw[i] \in UpperChars
       /\ \A i \in 4..10 : raw[i] \in {"O"} \cup DigitChars
    THEN 3
    ELSE LET ends == {n \in 0..Len(raw) : n = Len(raw) \/ raw[n + 1] \notin UpperChars}
         IN CHOOSE n \in ends : \A m \in ends : n <= m

\* the matched id with the letters O of its digit segment written as 0
ExpectedEpic(raw) ==
    [i \in 1..Len(raw) |->
        IF i > LetterSegment(raw) /\ raw[i] = "O" THEN "0" ELSE raw[i]]

\* C22: for every token the id pattern matches, the epic_no of the record of
\* either layout strategy is the matched text with each letter O of the digit
\* segment replaced by the digit 0, and so as long as the match.
C22_EpicNormalised ==
    pageRun.pc = "returned" =>
        \A k \in 1..Len(pageRun.regions) :
            LET token == pageRun.regions[k].anchor.text
                raw == Matched(token, Exec(EPIC, FALSE, token))
            IN /\ pageRun.result[k].epic_no = ExpectedEpic(raw)
               /\ Len(pageRun.result[k].epic_no) = Len(raw)

\* the text holds the label Name, in any case
HasNameLabel(text) ==
    \E i \in 1..(Len(text) - 3) :
        \A k \in 1..4 : Fold(text[i + k - 1]) = Chars("NAME")[k]

\* C23: for every region whose flattened text holds no Name label, the record
\* of either layout strategy has name_en = "Unknown" and relative_name = "", and
\* a run that has formed regions has raised no exception.
C23_NoNameLabel ==
    /\ \A k \in 1..Len(pageRun.regions) :
           ~HasNameLabel(pageRun.regions[k].text) =>
               /\ pageRun.pc = "returned"
               /\ Len(pageRun.result) = Len(pageRun.regions)
               /\ pageRun.result[k].name_en = Chars("Unknown")
               /\ pageRun.result[k].relative_name = <<>>
    /\ pageRun.pc = "thrown" => pageRun.regions = <<>>

C23_Witness ==
    /\ pageRun.pc = "returned"
    /\ pageRun.strategy = "digital"
    /\ \E k \in 1..Len(pageRun.regions) :
           /\ ~HasNameLabel(pageRun.regions[k].text)
           /\ pageRun.result[k].name_en = Chars("Unknown")
           /\ pageRun.result[k].age = Chars("41")
    /\ \E k \in 1..Len(pageRun.regions) : HasNameLabel(pageRun.regions[k].text)

\* the items of the page of the run, decoded
DecodedItems ==
    [i \in 1..Len(pageRun.tokens) |->
        [text |-> decodeURIComponent(pageRun.tokens[i].str).text,
         x |-> pageRun.tokens[i].x, y |-> pageRun.tokens[i].y,
         w |-> pageRun.tokens[i].w, h |-> pageRun.tokens[i].h]]

\* the tokens of the page the id pattern matches, in token order
Anchors ==
    LET IsId(item) == Exec(EPIC, FALSE, item.text).found
    IN SelectSeq(DecodedItems, IsId)

TokenSet(tokens) == {tokens[j] : j \in 1..Len(tokens)}

\* the tokens at most 200 left or right of the anchor, at most 120 below and at
\* most 60 above it
WindowOf(anchor) ==
    {item \in TokenSet(DecodedItems) :
        /\ Abs(item.x - anchor.x) <= 200
        /\ anchor.y - item.y <= 120
        /\ item.y - anchor.y <= 60}

\* the two anchors lie farther apart than the size of a window
FartherThanWindow(a, b) == Abs(a.x - b.x) > 400 \/ Abs(a.y - b.y) > 180

--------------------------------------------------------------------------------
(* Properties of the fallback run and of poll marking, checked under Spec      *)

\* the page tasks ask for no photographs: no record of a page task has one
C25_NoPhotos ==
    \A p \in 1..MaxPages : \A k \in 1..Len(tasks[p].call.result) :
        tasks[p].call.result[k].photoBase64 = Undefined

\* C25: the local fallback processes each eligible page with the image-OCR
\* strategy: while processPdfLocally runs no request to the remote vision model
\* is issued, and the extraction is called per page with include_photos = false.
C25_OcrOnly ==
    /\ \A p \in 1..MaxPages : tasks[p].call.requests = <<>>
    /\ C25_NoPhotos

\* C26: a poll-marking action (handlePartySelect or handleVoteToggle, applied
\* through updateVoter) on one listed voter changes that record only: the
\* collection keeps its length and order and every other record is left as it
\* was, also the records that have the same epic_no as the marked one.
C26_MarksOneRecord ==
    [][\A i \in 1..MaxVoters :
           MarkingOf(i) => /\ Len(voters') = Len(voters)
                       /\ voters'[i].isVoted # voters[i].isVoted
                       /\ \A j \in 1..Len(voters) : j # i => voters'[j] = voters[j]]_vars

\* C26 for the marked records whose epic_no no other record has
C26_UniqueEpic ==
    [][\A i \in 1..MaxVoters :
           (MarkingOf(i) /\ \A j \in 1..Len(voters) :
                            j # i => voters[j].epic_no # voters[i].epic_no)
               => /\ Len(voters') = Len(voters)
                  /\ voters'[i].isVoted # voters[i].isVoted
                  /\ \A j \in 1..Len(voters) : j # i => voters'[j] = voters[j]]_vars

\* no record of the collection is marked
AllUnmarked(vs) ==
    \A k \in 1..Len(vs) : ~vs[k].isVoted /\ vs[k].votedParty = Null

\* voted exactly when a party is recorded, and every vote has its time
MarkedConsistently(vs) ==
    \A k \in 1..Len(vs) :
        /\ vs[k].isVoted <=> vs[k].votedParty # Null
        /\ vs[k].isVoted => vs[k].timestamp # NoTimestamp

\* C27: starting from a collection in which every voter has isVoted = false and
\* votedParty = null, after any sequence of the marking actions the list offers
\* (a party for a voter that is not voted, undo for a voter that is voted) every
\* voter is voted exactly when votedParty is not null, and every voted voter has
\* a timestamp. Stated inductively: an unmarked collection is marked
\* consistently, and a marking action on a consistently marked collection
\* leaves it so.
C27_MarkedConsistently ==
    /\ [](AllUnmarked(voters) => MarkedConsistently(voters))
    /\ [][(MarkedConsistently(voters) /\ \E i \in 1..MaxVoters : MarkingOf(i))
              => MarkedConsistently(voters')]_vars

\* after marking both imported voters and undoing the first vote
C27_Witness ==
    /\ view = "DASHBOARD"
    /\ Len(voters) = 2
    /\ MarkedConsistently(voters)
    /\ ~voters[1].isVoted /\ voters[1].timestamp # NoTimestamp
    /\ voters[2].isVoted /\ voters[2].votedParty \in PartyNames

\* the bodies of the model that cannot be imported: no line, a header alone, and
\* a header with a row of two columns
UnimportableBodies == {<<>>, HeaderRow, HeaderRow \o <<"\n">> \o RowShort}

\* the catch of handleFileUpload has caught the throw of processCSVText
ImportFailed == upload.error = "import"

C28_State ==
    ImportFailed =>
        /\ \A b \in CloudBodies : b \in UnimportableBodies <=> ~ParseCSVText(b).ok
        /\ upload.pc = "timer"
        /\ voters = <<>>
        /\ status.isProcessing
        /\ ~IsErrorMessage(status.message)

C28_Step ==
    /\ \A outcome \in CloudOutcomes :
           (/\ outcome.kind = "ok"
            /\ outcome.body \in UnimportableBodies
            /\ CloudUploadResponds(outcome))
               => /\ ImportFailed'
                  /\ voters' = <<>>
                  /\ status'.isProcessing
                  /\ ~IsErrorMessage(status'.message)
                  /\ status' = [status EXCEPT !.message = "Switching to Local Engine..."]
                  /\ upload'.pc = "timer"
    /\ ImportFailed => upload'.file = upload.file

\* C28: when the cloud upload returns a 2xx response whose body cannot be
\* imported (fewer than 2 non-blank lines, or no row with at least 3 columns),
\* handleFileUpload treats it like a failed upload: the collection stays empty,
\* no terminal error status is set, and the local fallback is eventually started
\* for the same file.
C28_UnimportableFallsBack ==
    /\ []C28_State
    /\ [][C28_Step]_vars
    /\ ImportFailed ~> (upload.pc = "opening" /\ upload.localStarts = 1)

\* a response that could not be imported has been caught and the timer is set
C28_Witness ==
    /\ ImportFailed
    /\ upload.pc = "timer"
    /\ upload.file.readable
    /\ voters = <<>>
    /\ status.message = "Switching to Local Engine..."

\* processPdfLocally was started for a document that getDocument rejects
OpenFails == upload.localStarts = 1 /\ ~upload.file.readable

CriticalStatus ==
    [total |-> 0, current |-> 0, message |-> "Critical Error: " \o OpenError,
     isProcessing |-> FALSE]

C29_State ==
    OpenFails =>
        /\ StartedPages = {} /\ pageQueue = <<>> /\ upload.batches = 0
        /\ allVoters = <<>>
        /\ upload.pc = "finished" => status \in {CriticalStatus, IdleStatus}

C29_Step ==
    /\ (OpenFails /\ DocumentOpened)
           => /\ status' = CriticalStatus
              /\ voters' = voters
              /\ upload'.pc = "finished"
    /\ (OpenFails /\ upload.pc = "finished" /\ OpenFails')
           => /\ voters' = voters
              /\ tasks' = tasks
              /\ status' \in {status, IdleStatus}

\* C29: when processPdfLocally itself fails before or outside the page tasks
\* (the document cannot be opened), the status becomes a "Critical Error"
\* message with isProcessing = false, total = 0 and current = 0, the collection
\* stays as it was, and no page task is started afterwards.
C29_LocalFailureReported == []C29_State /\ [][C29_Step]_vars

\* the fallback of an unreadable document has ended with the error status
C29_Witness ==
    /\ OpenFails
    /\ upload.pc = "finished"
    /\ status = CriticalStatus
    /\ StartedPages = {}

\* the status processPdfLocally ends with when no page gave a record
NoVotersStatus ==
    [total |-> upload.file.numPages, current |-> upload.file.numPages,
     message |-> NoVotersMessage, isProcessing |-> FALSE]

C30_State ==
    ~apiKey =>
        /\ \A p \in 1..MaxPages :
               /\ tasks[p].call.requests = <<>>
               /\ tasks[p].call.attempt = 0
               /\ tasks[p].call.sleeps = 0
               /\ tasks[p].call.result = <<>>
               /\ tasks[p].pc \in {"none", "render", "failed"}
               /\ tasks[p].extractions > 0 => tasks[p].call.pc = "thrown"
        /\ upload.localStarts = 1 => voters = <<>> /\ allVoters = <<>>
        /\ LocalRunFinished =>
               /\ upload.batches
                      = CeilDiv(Len(EligiblePages(upload.file.numPages)),
                                upload.concurrency)
               /\ \A p \in 1..MaxPages :
                      tasks[p].pc = IF 3 <= p /\ p <= upload.file.numPages
                                    THEN "failed" ELSE "none"
               /\ status \in {NoVotersStatus, IdleStatus}

C30_Step ==
    (~apiKey /\ upload.localStarts = 1 /\ upload.pc # "finished"
         /\ upload'.pc = "finished" /\ upload.file.readable)
        => status' = NoVotersStatus

\* C30: when no API key is configured, the remote vision-model strategy throws
\* before issuing any model request (zero requests, no retry, no sleep); called
\* from the local fallback the exception is caught per page, so every eligible
\* page contributes zero records, all batches still run, and the run ends with
\* the "No voters found" status and isProcessing = false.
C30_NoKeyNoVoters == []C30_State /\ [][C30_Step]_vars

\* a run over five pages without a key has ended: pages 3..5 were rendered, the
\* call of each threw, and two batches ran
C30_Witness ==
    /\ ~apiKey
    /\ LocalRunFinished
    /\ upload.file.numPages = MaxPages
    /\ upload.batches >= 2
    /\ \A p \in 3..MaxPages :
           tasks[p].extractions = 1 /\ tasks[p].call.pc = "thrown"
    /\ status = NoVotersStatus

====
